---- MODULE Spec2Model ----
(***************************************************************************)
(* Loudness measurement, normalization, lookahead limiting and WAV         *)
(* encoding of Web-Audio-Mastering, as state machines over fixed-point     *)
(* numbers.                                                                *)
(*                                                                         *)
(* Numbers.  The program computes in IEEE floats; the model computes in    *)
(* integers with explicit units and rounds to nearest where the program    *)
(* computes a float:                                                         *)
(*   - a sample value v is the integer v * SampleOne;                      *)
(*   - a gain g is the integer g * GainOne;                                *)
(*   - a true peak p is the integer p * SampleOne * PeakScale (the cubic   *)
(*     at t = k/4 is an integer combination of the samples over 128).      *)
(* Array indices are the program's 0-based indices; a TLA+ sequence holds  *)
(* element i at position i + 1.                                            *)
(***************************************************************************)
EXTENDS Integers, Sequences, FiniteSets, TLC

\* lim: the locals of applyLookaheadLimiter.  targetLufsDb: the module-level
\* target loudness the slider sets.  norm: a call of measureLUFS or of
\* normalizeToLUFS and what it returned.  audio: the buffer handed to the
\* encoder.  enc: the locals of encodeWAV / encodeWAVAsync and what the caller
\* observes of the call.  prevWav: the bytes of the last encodeWAV.
\* processingCancelled: the module-level flag of the cancel button.  calls:
\* the locals of two calls of encodeWAVAsync that are in progress together.
VARIABLES lim, targetLufsDb, norm, audio, enc, prevWav, processingCancelled, calls, ui

vars == <<lim, targetLufsDb, norm, audio, enc, prevWav, processingCancelled, calls, ui>>

\* The variables of the encoder.
encVars == <<audio, enc, prevWav, processingCancelled, calls>>

\* No buffer is waiting to be encoded.
NoAudio == [numberOfChannels |-> 0]

\* No encoder call is in progress and none has returned.
EncIdle == [pc |-> "idle"]

\* No WAV has been produced yet.
NoWav == [fn |-> "none"]

\* The two callers whose calls of encodeWAVAsync overlap.
Callers == {1, 2}

\* Neither caller has a call in progress.
NoCalls == [c \in Callers |-> EncIdle]

\* No AudioBuffer (null).
NoBuffer == [input |-> 0, version |-> 0]

\* No render has finished yet.
NoRender == [thisVersion |-> 0, scheduledAt |-> 0, finishedAt |-> 0, wrote |-> FALSE]

\* No call of loadFile is running or has returned.
LoadIdle == [pc |-> "idle", file |-> 0, result |-> "none"]

\* The state of the page after its script has run: const fileState = {...},
\* playerState, audioNodes, let cacheRenderTimeout = null, let isProcessing =
\* false, and no timer, render, source, export or load.  changes counts the
\* calls of scheduleRenderToCache and the file loads, finished describes the
\* last cache render that finished, and downloads holds the exports that
\* clicked the download link.
UiInitial ==
    [fileState |-> [originalBuffer |-> 0, normalizedBuffer |-> 0,
                    cachedRenderBuffer |-> NoBuffer, cachedRenderLufs |-> NoBuffer,
                    isRenderingCache |-> FALSE, cacheRenderVersion |-> 0],
     cacheRenderTimeout |-> [pending |-> FALSE, thisVersion |-> 0, scheduledAt |-> 0],
     renders |-> {},
     changes |-> 0,
     finished |-> NoRender,
     playerState |-> [isPlaying |-> FALSE, isBypassed |-> FALSE,
                      seekUpdateInterval |-> FALSE],
     audioNodes |-> [context |-> FALSE, highpass |-> FALSE, source |-> 0,
                     buffer |-> FALSE],
     sources |-> <<>>,
     isProcessing |-> FALSE,
     processBtn |-> [disabled |-> TRUE],
     exports |-> <<>>,
     downloads |-> {},
     load |-> LoadIdle]

UiAtRest == ui = UiInitial

\* The encoder at rest: nothing encoded, let processingCancelled = false.
EncAtRest ==
    /\ audio = NoAudio
    /\ enc = EncIdle
    /\ prevWav = NoWav
    /\ processingCancelled = FALSE
    /\ calls = NoCalls
    /\ UiAtRest

----------------------------------------------------------------------------
(* Arithmetic helpers (Math.abs, Math.max, Math.min, Math.round, floor).   *)

Abs(x) == IF x < 0 THEN -x ELSE x

Max(a, b) == IF a >= b THEN a ELSE b

Min(a, b) == IF a <= b THEN a ELSE b

\* n / d rounded to the nearest integer, halves upwards (d > 0).
RoundDiv(n, d) == (2 * n + d) \div (2 * d)

\* a * b / d rounded to the nearest integer, without forming a * b.
MulDivRound(a, b, d) == (a \div d) * b + RoundDiv((a % d) * b, d)

RECURSIVE Gcd(_, _)
Gcd(a, b) == IF b = 0 THEN a ELSE Gcd(b, a % b)

----------------------------------------------------------------------------
(* Units and bounds.                                                       *)

\* The sample value 1.0.
SampleOne == 10000

\* The gain 1.0 (gainEnvelope.fill(1.0)).
GainOne == 10000

\* A true peak is held times 2 * 4^3: a0..a2 carry halves, t^3 = k^3 / 64.
PeakScale == 2 * 4 * 4 * 4

\* Frames of a mono buffer handed to the limiter.
MaxFrames == 5

\* Frames of a stereo buffer handed to the limiter.
MaxStereoFrames == 4

\* Sample values of the limiter's inputs: silence, below and above a ceiling.
LimSampleValues == {-3 * SampleOne, 0, (4 * SampleOne) \div 5, 2 * SampleOne}

\* Sample values of the limiter's stereo inputs.
LimStereoValues == {0, 2 * SampleOne}

\* Sample rates of the limiter's inputs.
LimSampleRates == {1000, 8000}

\* Ceilings handed to the limiter: 0.5 and the default 0.891.
LimCeilings == {SampleOne \div 2, (891 * SampleOne) \div 1000}

\* All sequences of length n over S.
SeqsOfLen(S, n) == [1..n -> S]

\* AudioBuffers of nch channels and 1 to maxLen frames over the values vals
\* (an AudioBuffer has at least one frame).
Buffers(nch, maxLen, vals, rates) ==
    UNION { UNION { { [sampleRate |-> sr, length |-> n, numberOfChannels |-> nch,
                       channels |-> chs] : chs \in [1..nch -> SeqsOfLen(vals, n)] }
                    : n \in 1..maxLen } : sr \in rates }

----------------------------------------------------------------------------
(* True-peak estimation.                                                   *)

\* 128 times the Catmull-Rom cubic through p at t = k / 4.
CubicNum(p, k) ==
      (-p[1] + 3 * p[2] - 3 * p[3] + p[4]) * (k * k * k)
    + 4 * (2 * p[1] - 5 * p[2] + 4 * p[3] - p[4]) * (k * k)
    + 16 * (-p[1] + p[3]) * k
    + PeakScale * p[2]

\* calculateTruePeakSample: the largest of |y2| and the cubic at t = 1/4, 1/2, 3/4.
calculateTruePeakSample(prevSamples) ==
    Max(Max(PeakScale * Abs(prevSamples[3]), Abs(CubicNum(prevSamples, 1))),
        Max(Abs(CubicNum(prevSamples, 2)), Abs(CubicNum(prevSamples, 3))))

\* The window after the shift that brings in sample x.
ShiftSamples(prevSamples, x) ==
    <<prevSamples[2], prevSamples[3], prevSamples[4], x>>

\* prevSamples after the loop body of index i has shifted channelData[i] in.
RECURSIVE WindowAt(_, _)
WindowAt(channelData, i) ==
    IF i < 0 THEN <<0, 0, 0, 0>>
    ELSE ShiftSamples(WindowAt(channelData, i - 1), channelData[i + 1])

\* The true peak findTruePeak sees at index i of one channel (0 before i = 3).
PeakAt(channelData, i) ==
    IF i >= 3 THEN calculateTruePeakSample(WindowAt(channelData, i)) ELSE 0

\* Largest element of a finite set of naturals, 0 when empty.
SetMax(S) == IF S = {} THEN 0 ELSE CHOOSE m \in S : \A x \in S : x <= m

\* findTruePeak's maxPeak (linear), over all channels and indices.
MaxTruePeak(channels) ==
    SetMax({ PeakAt(channels[ch], i) :
             ch \in DOMAIN channels, i \in 0..(Len(channels[1]) - 1) })

----------------------------------------------------------------------------
(* applyLookaheadLimiter.                                                  *)

\* GainOne * 100 * x^k / k! for x = p / q, the k-th term of exp's series.
RECURSIVE ExpTerm(_, _, _)
ExpTerm(p, q, k) ==
    IF k = 0 THEN GainOne * 100 ELSE (ExpTerm(p, q, k - 1) * p) \div (q * k)

\* Math.exp(-p / q) as a gain, for 0 <= p <= q (ten terms of the series).
ExpNeg(p, q) ==
    LET g == Gcd(p, q)
        pr == p \div g
        qr == q \div g
        even == ExpTerm(pr, qr, 0) + ExpTerm(pr, qr, 2) + ExpTerm(pr, qr, 4)
                + ExpTerm(pr, qr, 6) + ExpTerm(pr, qr, 8) + ExpTerm(pr, qr, 10)
        odd == ExpTerm(pr, qr, 1) + ExpTerm(pr, qr, 3) + ExpTerm(pr, qr, 5)
               + ExpTerm(pr, qr, 7) + ExpTerm(pr, qr, 9)
    IN RoundDiv(even - odd, 100)

\* Math.floor(sampleRate * lookaheadMs / 1000)
lookaheadSamples(sampleRate, lookaheadMs) == (sampleRate * lookaheadMs) \div 1000

\* Math.exp(-1 / (releaseMs * sampleRate / 1000))
releaseCoef(sampleRate, releaseMs) == ExpNeg(1000, releaseMs * sampleRate)

\* requiredGain of pass 1: ceiling / truePeak above the ceiling, else 1.0.
RequiredGain(truePeak, ceilingLinear) ==
    IF truePeak > ceilingLinear * PeakScale
    THEN MulDivRound(GainOne * ceilingLinear, PeakScale, truePeak)
    ELSE GainOne

\* The envelope after pass 1 has applied requiredGain at index i with lookahead.
ApplyLookahead(gainEnvelope, i, requiredGain, lookahead) ==
    LET targetIndex == Max(0, i - lookahead)
    IN IF requiredGain < gainEnvelope[targetIndex + 1]
       THEN [j \in DOMAIN gainEnvelope |->
                IF targetIndex <= j - 1 /\ j - 1 <= i
                THEN Min(gainEnvelope[j], requiredGain)
                ELSE gainEnvelope[j]]
       ELSE gainEnvelope

\* One iteration of pass 1 (index i): the windows and the envelope after it.
Pass1Body(st, audioBuffer, ceilingLinear, lookahead) ==
    LET i == st.i
        stereo == audioBuffer.numberOfChannels > 1
        pL == ShiftSamples(st.prevSamplesL, audioBuffer.channels[1][i + 1])
        pR == IF stereo
              THEN ShiftSamples(st.prevSamplesR, audioBuffer.channels[2][i + 1])
              ELSE st.prevSamplesR
        peakL == IF i >= 3 THEN calculateTruePeakSample(pL) ELSE 0
        truePeak == IF stereo /\ i >= 3
                    THEN Max(peakL, calculateTruePeakSample(pR))
                    ELSE peakL
    IN [st EXCEPT !.prevSamplesL = pL,
                  !.prevSamplesR = pR,
                  !.gainEnvelope = ApplyLookahead(st.gainEnvelope, i,
                                       RequiredGain(truePeak, ceilingLinear), lookahead),
                  !.i = i + 1]

\* A release that adds (1 - releaseCoef) to the held gain and does not clamp it.
ReleaseGainUnclamped(currentGain, coef) == currentGain + (GainOne - coef)

\* The smooth release: releaseCoef * currentGain + (1 - releaseCoef) * 1.0, at most 1.0.
ReleaseGain(currentGain, coef) ==
    Min(RoundDiv(coef * currentGain + (GainOne - coef) * GainOne, GainOne), GainOne)

\* currentGain after one iteration of pass 2 that reads the envelope value e.
SmoothGain(currentGain, e, coef) ==
    IF e < currentGain THEN e ELSE ReleaseGain(currentGain, coef)

\* One iteration of pass 2 (index i).
Pass2Body(st, coef) ==
    LET g == SmoothGain(st.currentGain, st.gainEnvelope[st.i + 1], coef)
    IN [st EXCEPT !.currentGain = g,
                  !.gainEnvelope = [st.gainEnvelope EXCEPT ![st.i + 1] = g],
                  !.i = st.i + 1]

\* output[i] = input[i] * gainEnvelope[i], stored as a sample.
ApplyEnvelope(channels, gainEnvelope) ==
    [ch \in DOMAIN channels |->
        [j \in DOMAIN channels[ch] |->
            RoundDiv(channels[ch][j] * gainEnvelope[j], GainOne)]]

\* The limiter's locals at entry: the envelope filled with 1.0.
LimiterEntry(audioBuffer, ceilingLinear, lookaheadMs, releaseMs) ==
    [pc |-> "pass1",
     audioBuffer |-> audioBuffer,
     ceilingLinear |-> ceilingLinear,
     lookaheadMs |-> lookaheadMs,
     releaseMs |-> releaseMs,
     i |-> 0,
     gainEnvelope |-> [j \in 1..audioBuffer.length |-> GainOne],
     pass1Envelope |-> <<>>,
     prevSamplesL |-> <<0, 0, 0, 0>>,
     prevSamplesR |-> <<0, 0, 0, 0>>,
     currentGain |-> GainOne,
     outputBuffer |-> <<>>]

\* The limiter's locals when it is not running.
LimIdle == [pc |-> "idle"]

\* normalizeToLUFS's record when it is not running.
NormIdle == [pc |-> "idle"]

\* let targetLufsDb = -9
DefaultTargetLufsDb == -9

\* The locals when the second pass begins: let currentGain = 1.0.
EnterPass2(st) ==
    [st EXCEPT !.pc = "pass2", !.i = 0, !.currentGain = GainOne,
               !.pass1Envelope = st.gainEnvelope]

\* The locals at return: the output buffer holds the input times the envelope.
Finish(st) ==
    [st EXCEPT !.pc = "done",
               !.outputBuffer = ApplyEnvelope(st.audioBuffer.channels, st.gainEnvelope)]

\* The first pass run from st to the end of the buffer.
RECURSIVE RunPass1(_)
RunPass1(st) ==
    IF st.i < st.audioBuffer.length
    THEN RunPass1(Pass1Body(st, st.audioBuffer, st.ceilingLinear,
                            lookaheadSamples(st.audioBuffer.sampleRate, st.lookaheadMs)))
    ELSE st

\* The second pass run from st to the end of the buffer.
RECURSIVE RunPass2(_)
RunPass2(st) ==
    IF st.i < st.audioBuffer.length
    THEN RunPass2(Pass2Body(st, releaseCoef(st.audioBuffer.sampleRate, st.releaseMs)))
    ELSE st

\* applyLookaheadLimiter run from entry to return: the buffer it returns.
applyLookaheadLimiter(audioBuffer, ceilingLinear, lookaheadMs, releaseMs) ==
    LET done == Finish(RunPass2(EnterPass2(RunPass1(
                    LimiterEntry(audioBuffer, ceilingLinear, lookaheadMs, releaseMs)))))
    IN [audioBuffer EXCEPT !.channels = done.outputBuffer]

LimInit ==
    /\ targetLufsDb = DefaultTargetLufsDb
    /\ norm = NormIdle
    /\ EncAtRest
    /\ \E b \in Buffers(1, MaxFrames, LimSampleValues, LimSampleRates)
               \cup Buffers(2, MaxStereoFrames, LimStereoValues, LimSampleRates) :
        \E c \in LimCeilings :
          lim = LimiterEntry(b, c, 3, 100)

\* for (let i = 0; i < length; i++) of the first pass.
Pass1Step ==
    /\ lim.pc = "pass1"
    /\ lim.i < lim.audioBuffer.length
    /\ lim' = Pass1Body(lim, lim.audioBuffer, lim.ceilingLinear,
                        lookaheadSamples(lim.audioBuffer.sampleRate, lim.lookaheadMs))
    /\ UNCHANGED <<targetLufsDb, norm, encVars, ui>>

\* The first pass is over: let currentGain = 1.0.
Pass2Start ==
    /\ lim.pc = "pass1"
    /\ lim.i = lim.audioBuffer.length
    /\ lim' = EnterPass2(lim)
    /\ UNCHANGED <<targetLufsDb, norm, encVars, ui>>

\* for (let i = 0; i < length; i++) of the second pass.
Pass2Step ==
    /\ lim.pc = "pass2"
    /\ lim.i < lim.audioBuffer.length
    /\ lim' = Pass2Body(lim, releaseCoef(lim.audioBuffer.sampleRate, lim.releaseMs))
    /\ UNCHANGED <<targetLufsDb, norm, encVars, ui>>

\* The output buffer is created and every sample multiplied by the envelope.
ApplyGainEnvelope ==
    /\ lim.pc = "pass2"
    /\ lim.i = lim.audioBuffer.length
    /\ lim' = Finish(lim)
    /\ UNCHANGED <<targetLufsDb, norm, encVars, ui>>

LimNext == Pass1Step \/ Pass2Start \/ Pass2Step \/ ApplyGainEnvelope

SpecLimiter == LimInit /\ [][LimNext]_vars

----------------------------------------------------------------------------
(* Decibels.  A level in dB is the integer dB * DbOne; -Infinity is kept   *)
(* apart.  Math.pow(10, x / 20) and Math.log10 are evaluated digit by      *)
(* digit of x / 2000 from the values of 10^(k / 2), 10^(k / 20),           *)
(* 10^(k / 200) and 10^(k / 2000), each held times 10000.                  *)

\* The level 1 dB.
DbOne == 100

\* A level that is -Infinity, and a finite level.
NegInfinity == [finite |-> FALSE, db |-> 0]

Finite(db) == [finite |-> TRUE, db |-> db]

\* isFinite
isFinite(level) == level.finite

\* 10000 * 10^(k / 2) for k = 0, 1.
PowHalves == <<10000, 31623>>

\* 10000 * 10^(k / 20) for k = 0..9.
PowTwentieths == <<10000, 11220, 12589, 14125, 15849, 17783, 19953, 22387, 25119, 28184>>

\* 10000 * 10^(k / 200) for k = 0..9.
PowTwoHundredths == <<10000, 10116, 10233, 10351, 10471, 10593, 10715, 10839, 10965, 11092>>

\* 10000 * 10^(k / 2000) for k = 0..9.
PowTwoThousandths == <<10000, 10012, 10023, 10035, 10046, 10058, 10069, 10081, 10093, 10104>>

\* 10000 * 10^(r / 2000) for 0 <= r < 2000.
PowFrac(r) ==
    LET a == PowHalves[(r \div 1000) + 1]
        b == PowTwentieths[((r \div 100) % 10) + 1]
        c == PowTwoHundredths[((r \div 10) % 10) + 1]
        d == PowTwoThousandths[(r % 10) + 1]
    IN RoundDiv(RoundDiv(RoundDiv(a * b, 10000) * c, 10000) * d, 10000)

RECURSIVE PowTen(_)
PowTen(k) == IF k = 0 THEN 1 ELSE 10 * PowTen(k - 1)

\* Math.pow(10, db / 20) as a gain, for a level db in units of 1 / DbOne dB.
DbToLinear(db) ==
    LET q == db \div (20 * DbOne)
        m == PowFrac(db % (20 * DbOne))
    IN IF q >= 0 THEN MulDivRound(m, GainOne * PowTen(q), 10000)
       ELSE RoundDiv(MulDivRound(m, GainOne, 10000), PowTen(-q))

\* The largest r in lo..hi with PowFrac(r) <= m, given PowFrac(lo) <= m.
RECURSIVE LogSearch(_, _, _)
LogSearch(lo, hi, m) ==
    IF lo = hi THEN lo
    ELSE LET mid == (lo + hi + 1) \div 2
         IN IF PowFrac(mid) <= m THEN LogSearch(mid, hi, m)
            ELSE LogSearch(lo, mid - 1, m)

\* 20 * Math.log10(n / d) in units of 1 / DbOne dB, for n, d > 0: the decade q
\* with 10^q <= n / d < 10^(q + 1), then the digits of the mantissa's logarithm.
RECURSIVE LogRatio(_, _, _)
LogRatio(n, d, q) ==
    IF n < d THEN LogRatio(n * 10, d, q - 1)
    ELSE IF n \div 10 >= d THEN LogRatio(n, d * 10, q + 1)
    ELSE LET k == (d \div 50000) + 1
             m == MulDivRound(n \div k, 10000, d \div k)
         IN 20 * DbOne * q + LogSearch(0, 20 * DbOne - 1, Min(m, 99999))

\* 20 * Math.log10(n / d), -Infinity for n = 0.
AmplitudeToDb(n, d) == IF n <= 0 THEN NegInfinity ELSE Finite(LogRatio(n, d, 0))

\* 10 * Math.log10(n / d) for n > 0.
TenLog10(n, d) == LogRatio(n, d, 0) \div 2


----------------------------------------------------------------------------
(* measureLUFS.                                                            *)

\* A biquad coefficient of 1.0.
CoefOne == 1000

\* LUFS_CONSTANTS: BLOCK_SIZE_SEC in ms, BLOCK_OVERLAP in percent, the absolute
\* gate as a mean square, 1 / RELATIVE_GATE_OFFSET, LOUDNESS_OFFSET in dB.
BLOCK_SIZE_MS == 400

BLOCK_OVERLAP_PCT == 75

ABSOLUTE_GATE_LINEAR == (SampleOne * SampleOne) \div 10000000

RELATIVE_GATE_DIVISOR == 10

LOUDNESS_OFFSET == RoundDiv(-691 * DbOne, 1000)

\* calcHighShelfCoeffs(sampleRate, 1681.97, 4.0, 0.71), evaluated at the sample
\* rates of the model and held times CoefOne.
calcHighShelfCoeffs(sampleRate) ==
    CASE sampleRate = 12 -> [b0 |-> 1355, b1 |-> -1026, b2 |-> 375, a1 |-> -518, a2 |-> 221]
      [] sampleRate = 16 -> [b0 |-> 1406, b1 |-> -1486, b2 |-> 531, a1 |-> -854, a2 |-> 305]

\* calcHighPassCoeffs(sampleRate, 38.14, 0.5), evaluated likewise.
calcHighPassCoeffs(sampleRate) ==
    CASE sampleRate = 12 -> [b0 |-> 378, b1 |-> -755, b2 |-> 378, a1 |-> -458, a2 |-> 52]
      [] sampleRate = 16 -> [b0 |-> 77, b1 |-> -153, b2 |-> 77, a1 |-> 894, a2 |-> 200]

\* applyBiquadFilter's state after sample i: the output so far and x1, x2, y1, y2.
RECURSIVE BiquadRun(_, _, _)
BiquadRun(samples, coeffs, i) ==
    IF i < 0 THEN [output |-> <<>>, x1 |-> 0, x2 |-> 0, y1 |-> 0, y2 |-> 0]
    ELSE LET st == BiquadRun(samples, coeffs, i - 1)
             x0 == samples[i + 1]
             y0 == RoundDiv(coeffs.b0 * x0 + coeffs.b1 * st.x1 + coeffs.b2 * st.x2
                            - coeffs.a1 * st.y1 - coeffs.a2 * st.y2, CoefOne)
         IN [output |-> Append(st.output, y0),
             x1 |-> x0, x2 |-> st.x1, y1 |-> y0, y2 |-> st.y1]

\* applyBiquadFilter: a new array, the input is only read.
applyBiquadFilter(samples, coeffs) == BiquadRun(samples, coeffs, Len(samples) - 1).output

\* Sum of f[k] for k in lo..hi.
RECURSIVE SumOver(_, _, _)
SumOver(f, lo, hi) == IF lo > hi THEN 0 ELSE f[lo] + SumOver(f, lo + 1, hi)

\* Sum of a sequence.
SeqSum(q) == SumOver(q, 1, Len(q))

\* The elements of a sequence that are greater than a threshold.
FilterAtLeast(q, threshold) == SelectSeq(q, LAMBDA ms : ms >= threshold)

\* blocks.filter(ms => ms > threshold)
FilterAbove(q, threshold) == SelectSeq(q, LAMBDA ms : ms > threshold)

\* The block size rounded to the nearest integer instead of down.
BlockSizeRounded(sampleRate) == RoundDiv(sampleRate * BLOCK_SIZE_MS, 1000)

\* Math.floor(sampleRate * BLOCK_SIZE_SEC)
BlockSize(sampleRate) == (sampleRate * BLOCK_SIZE_MS) \div 1000

\* Math.floor(sampleRate * BLOCK_SIZE_SEC * (1 - BLOCK_OVERLAP))
HopSize(sampleRate) ==
    (sampleRate * BLOCK_SIZE_MS * (100 - BLOCK_OVERLAP_PCT)) \div 100000

\* audioBuffer.duration < BLOCK_SIZE_SEC
TooShort(audioBuffer) == audioBuffer.length * 1000 < BLOCK_SIZE_MS * audioBuffer.sampleRate

\* The K-weighted channels.
FilteredChannels(audioBuffer) ==
    [ch \in DOMAIN audioBuffer.channels |->
        applyBiquadFilter(
            applyBiquadFilter(audioBuffer.channels[ch],
                              calcHighShelfCoeffs(audioBuffer.sampleRate)),
            calcHighPassCoeffs(audioBuffer.sampleRate))]

\* The sum of squares of the first channel alone.
SumSquaresFirstChannel(filteredChannels, start, blockSize) ==
    SumOver([i \in 1..Len(filteredChannels[1]) |->
                filteredChannels[1][i] * filteredChannels[1][i]],
            start + 1, start + blockSize)

\* sumSquares of the block starting at start, over all channels.
SumSquares(filteredChannels, start, blockSize) ==
    SumOver([ch \in DOMAIN filteredChannels |->
                SumOver([i \in 1..Len(filteredChannels[ch]) |->
                            filteredChannels[ch][i] * filteredChannels[ch][i]],
                        start + 1, start + blockSize)],
            1, Len(filteredChannels))

\* The mean squares of the blocks from start on, stepping by hopSize.
RECURSIVE BlocksFrom(_, _, _, _, _)
BlocksFrom(filteredChannels, start, blockSize, hopSize, length) ==
    IF start + blockSize <= length
    THEN <<RoundDiv(SumSquares(filteredChannels, start, blockSize),
                    blockSize * Len(filteredChannels))>>
         \o BlocksFrom(filteredChannels, start + hopSize, blockSize, hopSize, length)
    ELSE <<>>

\* The values start takes in the block loop, from start on (hopSize > 0):
\* for (let start = 0; start + blockSize <= length; start += hopSize).
RECURSIVE BlockStartsFrom(_, _, _, _)
BlockStartsFrom(start, blockSize, hopSize, length) ==
    IF start + blockSize <= length
    THEN <<start>> \o BlockStartsFrom(start + hopSize, blockSize, hopSize, length)
    ELSE <<>>

\* The block starts of measureLUFS for a buffer that passed the duration check.
BlockStarts(audioBuffer) ==
    BlockStartsFrom(0, BlockSize(audioBuffer.sampleRate),
                    HopSize(audioBuffer.sampleRate), audioBuffer.length)

\* The blocks array of measureLUFS.
Blocks(audioBuffer) ==
    BlocksFrom(FilteredChannels(audioBuffer), 0, BlockSize(audioBuffer.sampleRate),
               HopSize(audioBuffer.sampleRate), audioBuffer.length)

\* The blocks that pass the absolute gate.
AbsoluteGated(blocks) == FilterAbove(blocks, ABSOLUTE_GATE_LINEAR)

\* The relative gate with the mean itself as its threshold.
RelativeGatedAtMean(gatedBlocks) ==
    FilterAbove(gatedBlocks, RoundDiv(SeqSum(gatedBlocks), Len(gatedBlocks)))

\* The blocks that pass both gates (gatedBlocks not empty).
RelativeGated(gatedBlocks) ==
    LET ungatedMean == RoundDiv(SeqSum(gatedBlocks), Len(gatedBlocks))
    IN FilterAbove(gatedBlocks, RoundDiv(ungatedMean, RELATIVE_GATE_DIVISOR))

\* The gating and the integrated loudness of a blocks array.
IntegratedLoudness(blocks) ==
    IF Len(blocks) = 0 THEN NegInfinity
    ELSE IF Len(AbsoluteGated(blocks)) = 0 THEN NegInfinity
    ELSE IF Len(RelativeGated(AbsoluteGated(blocks))) = 0 THEN NegInfinity
    ELSE LET gatedBlocks == RelativeGated(AbsoluteGated(blocks))
             gatedMean == RoundDiv(SeqSum(gatedBlocks), Len(gatedBlocks))
         IN Finite(LOUDNESS_OFFSET + TenLog10(gatedMean, SampleOne * SampleOne))

\* measureLUFS(audioBuffer); target is the module-level targetLufsDb it reads.
measureLUFS(audioBuffer, target) ==
    IF TooShort(audioBuffer) THEN Finite(target * DbOne)
    ELSE IntegratedLoudness(Blocks(audioBuffer))

\* findTruePeak(audioBuffer), in dBTP.
findTruePeak(audioBuffer) ==
    AmplitudeToDb(MaxTruePeak(audioBuffer.channels), PeakScale * SampleOne)


----------------------------------------------------------------------------
(* normalizeToLUFS and the target-loudness slider.                         *)

\* Frames of the buffers that are measured and normalized.
MaxNormFrames == 5

MaxNormStereoFrames == 5

\* Samples: silence, one step above it (below the absolute gate), half scale
\* and a negative sample near full scale.
NormSampleValues == {0, 1, -(4 * SampleOne) \div 5}

NormStereoValues == {0, SampleOne \div 2}

NormSampleRates == {12}

\* The targetLUFS arguments and the slider positions.
TargetLufsValues == {-14, -9}

\* ceilingDB = -1
DefaultCeilingDB == -1

\* The level itself, the gain left out.
AddDbWithoutGain(level, gainDb) == level

\* level + gain in dB: -Infinity plus a finite gain stays -Infinity.
AddDb(level, gainDb) == IF level.finite THEN Finite(level.db + gainDb) ELSE NegInfinity

\* level > db for a finite db.
ExceedsDb(level, db) == level.finite /\ level.db > db

\* gainedBuffer: output[i] = input[i] * gainLinear on every channel.
GainedBuffer(audioBuffer, gainLinear) ==
    [audioBuffer EXCEPT !.channels =
        [ch \in DOMAIN audioBuffer.channels |->
            [i \in DOMAIN audioBuffer.channels[ch] |->
                MulDivRound(audioBuffer.channels[ch][i], gainLinear, GainOne)]]]

\* normalizeToLUFS(audioBuffer, targetLUFS, ceilingDB) with targetLufsDb = target:
\* which buffer it returns (the input object, the gained copy or the limiter's
\* output) and what it did on the way.
normalizeToLUFS(audioBuffer, targetLUFS, ceilingDB, target) ==
    LET currentLUFS == measureLUFS(audioBuffer, target)
        currentPeakDB == findTruePeak(audioBuffer)
        lufsGainDB == targetLUFS * DbOne - currentLUFS.db
        gainLinear == DbToLinear(lufsGainDB)
        projectedPeakDB == AddDb(currentPeakDB, lufsGainDB)
        ceilingLinear == RoundDiv(DbToLinear(ceilingDB * DbOne) * SampleOne, GainOne)
        gainedBuffer == GainedBuffer(audioBuffer, gainLinear)
    IN IF ~isFinite(currentLUFS)
       THEN [returned |-> "input", buffer |-> audioBuffer, currentLUFS |-> currentLUFS,
             gainApplied |-> FALSE, limiterInvoked |-> FALSE]
       ELSE IF ExceedsDb(projectedPeakDB, ceilingDB * DbOne)
       THEN [returned |-> "limited",
             buffer |-> applyLookaheadLimiter(gainedBuffer, ceilingLinear, 3, 100),
             currentLUFS |-> currentLUFS,
             gainApplied |-> TRUE, limiterInvoked |-> TRUE]
       ELSE [returned |-> "gained", buffer |-> gainedBuffer, currentLUFS |-> currentLUFS,
             gainApplied |-> TRUE, limiterInvoked |-> FALSE]

----------------------------------------------------------------------------
(* Where the stages store.  Each sample loop reads one typed array and     *)
(* stores into another; mem holds both arrays of one channel, input being  *)
(* the array the loop reads and output the array it created.               *)

\* A store that lands in the array the loop reads.
StoreInInput(mem, i, value) == [mem EXCEPT !.input[i + 1] = value]

\* output[i] = value
Store(mem, i, value) == [mem EXCEPT !.output[i + 1] = value]

\* new Float32Array(length) / the channel data of a new AudioBuffer: zeros.
Allocate(input) == [input |-> input, output |-> [i \in 1..Len(input) |-> 0]]

\* applyBiquadFilter's arrays and filter state after the iteration of index i.
RECURSIVE BiquadStores(_, _, _)
BiquadStores(samples, coeffs, i) ==
    IF i < 0 THEN [mem |-> Allocate(samples), x1 |-> 0, x2 |-> 0, y1 |-> 0, y2 |-> 0]
    ELSE LET st == BiquadStores(samples, coeffs, i - 1)
             x0 == st.mem.input[i + 1]
             y0 == RoundDiv(coeffs.b0 * x0 + coeffs.b1 * st.x1 + coeffs.b2 * st.x2
                            - coeffs.a1 * st.y1 - coeffs.a2 * st.y2, CoefOne)
         IN [mem |-> Store(st.mem, i, y0),
             x1 |-> x0, x2 |-> st.x1, y1 |-> y0, y2 |-> st.y1]

\* The arrays after the loop output[i] = input[i] * gains[i] has run to index i
\* (the gain loop of normalizeToLUFS and the last loop of the limiter).
RECURSIVE ScaleStores(_, _, _)
ScaleStores(input, gains, i) ==
    IF i < 0 THEN Allocate(input)
    ELSE LET mem == ScaleStores(input, gains, i - 1)
         IN Store(mem, i, MulDivRound(mem.input[i + 1], gains[i + 1], GainOne))

\* The arrays of every channel after the stage has run over all of them.
BiquadMemory(channels, coeffs) ==
    [ch \in DOMAIN channels |->
        BiquadStores(channels[ch], coeffs, Len(channels[ch]) - 1).mem]

\* The same for a loop that scales by gains.
ScaleMemory(channels, gains) ==
    [ch \in DOMAIN channels |-> ScaleStores(channels[ch], gains, Len(channels[ch]) - 1)]

\* The input arrays of a stage as the stage left them.
InputsOf(memory) == [ch \in DOMAIN memory |-> memory[ch].input]

\* The arrays a stage created, as it left them.
OutputsOf(memory) == [ch \in DOMAIN memory |-> memory[ch].output]

\* The arrays measureLUFS touched, when it returns: the channel data of its
\* argument, and the first filter's output after the second filter has read it.
measureLUFSMemory(audioBuffer) ==
    IF TooShort(audioBuffer)
    THEN [channels |-> audioBuffer.channels, filtered |-> <<>>]
    ELSE LET shelf == BiquadMemory(audioBuffer.channels,
                                   calcHighShelfCoeffs(audioBuffer.sampleRate))
             pass == BiquadMemory(OutputsOf(shelf),
                                  calcHighPassCoeffs(audioBuffer.sampleRate))
         IN [channels |-> InputsOf(shelf), filtered |-> InputsOf(pass)]

\* The buffers normalizeToLUFS touched, when it returns: its argument, the
\* gained buffer and the limiter's output (<<>> for a buffer never created).
\* findTruePeak and the two passes of the limiter store into no channel data.
normalizeToLUFSMemory(audioBuffer, targetLUFS, ceilingDB, target) ==
    LET out == normalizeToLUFS(audioBuffer, targetLUFS, ceilingDB, target)
        measured == measureLUFSMemory(audioBuffer).channels
        lufsGainDB == targetLUFS * DbOne - out.currentLUFS.db
        gain == ScaleMemory(measured,
                    [i \in 1..audioBuffer.length |-> DbToLinear(lufsGainDB)])
        ceilingLinear == RoundDiv(DbToLinear(ceilingDB * DbOne) * SampleOne, GainOne)
        gainedBuffer == [audioBuffer EXCEPT !.channels = OutputsOf(gain)]
        envelope == RunPass2(EnterPass2(RunPass1(
                        LimiterEntry(gainedBuffer, ceilingLinear, 3, 100)))).gainEnvelope
        limit == ScaleMemory(OutputsOf(gain), envelope)
    IN IF ~out.gainApplied
       THEN [audioBuffer |-> measured, gainedBuffer |-> <<>>, limitedBuffer |-> <<>>]
       ELSE IF ~out.limiterInvoked
       THEN [audioBuffer |-> InputsOf(gain), gainedBuffer |-> OutputsOf(gain),
             limitedBuffer |-> <<>>]
       ELSE [audioBuffer |-> InputsOf(gain), gainedBuffer |-> InputsOf(limit),
             limitedBuffer |-> OutputsOf(limit)]

\* The buffers handed to measureLUFS and normalizeToLUFS.
NormBuffers ==
    Buffers(1, MaxNormFrames, NormSampleValues, NormSampleRates)
    \cup Buffers(2, MaxNormStereoFrames, NormStereoValues, NormSampleRates)

NormInit ==
    /\ lim = LimIdle
    /\ EncAtRest
    /\ targetLufsDb = DefaultTargetLufsDb
    /\ norm = NormIdle

\* targetLufsSlider 'input': targetLufsDb = parseInt(targetLufsSlider.value).
TargetLufsInput ==
    /\ norm.pc = "idle"
    /\ \E newValue \in TargetLufsValues : targetLufsDb' = newValue
    /\ UNCHANGED <<lim, norm, encVars, ui>>

\* A call of measureLUFS(audioBuffer), run to its return.
CallMeasureLUFS ==
    /\ norm.pc = "idle"
    /\ \E b \in NormBuffers :
          norm' = [pc |-> "measured", audioBuffer |-> b,
                   currentLUFS |-> measureLUFS(b, targetLufsDb),
                   blockStarts |-> IF TooShort(b) THEN <<>> ELSE BlockStarts(b),
                   blocks |-> IF TooShort(b) THEN <<>> ELSE Blocks(b),
                   memory |-> measureLUFSMemory(b)]
    /\ UNCHANGED <<lim, targetLufsDb, encVars, ui>>

\* A call of normalizeToLUFS(audioBuffer, targetLUFS), run to its return.
CallNormalizeToLUFS ==
    /\ norm.pc = "idle"
    /\ \E b \in NormBuffers, t \in TargetLufsValues :
          norm' = [pc |-> "normalized", audioBuffer |-> b, targetLUFS |-> t,
                   ceilingDB |-> DefaultCeilingDB,
                   maxPeak |-> MaxTruePeak(b.channels),
                   out |-> normalizeToLUFS(b, t, DefaultCeilingDB, targetLufsDb),
                   memory |-> normalizeToLUFSMemory(b, t, DefaultCeilingDB,
                                                    targetLufsDb)]
    /\ UNCHANGED <<lim, targetLufsDb, encVars, ui>>

\* The caller has taken the result.
NormReturn ==
    /\ norm.pc \in {"measured", "normalized"}
    /\ norm' = NormIdle
    /\ UNCHANGED <<lim, targetLufsDb, encVars, ui>>

\* The longest blocks array that is gated on its own.
MaxGateBlocks == 3

\* Block mean squares around the two thresholds: silence, the absolute gate
\* itself, the first value above it, and a pair whose smaller value is one
\* tenth of the mean of the two.
GateBlockValues ==
    {0, ABSOLUTE_GATE_LINEAR, ABSOLUTE_GATE_LINEAR + 1, 100, 1900}

GateBlockArrays ==
    UNION {[1..n -> GateBlockValues] : n \in 1..MaxGateBlocks}

\* The gating stage of measureLUFS on a blocks array: from
\* if (blocks.length === 0) to the return.
GateBlocks ==
    /\ norm.pc = "idle"
    /\ \E blocks \in GateBlockArrays :
          norm' = [pc |-> "gated", blocks |-> blocks,
                   currentLUFS |-> IntegratedLoudness(blocks)]
    /\ UNCHANGED <<lim, targetLufsDb, encVars, ui>>

\* The caller has taken the loudness.
GateReturn ==
    /\ norm.pc \in {"gated", "measured"}
    /\ norm' = NormIdle
    /\ UNCHANGED <<lim, targetLufsDb, encVars, ui>>

GatingNext == GateBlocks \/ CallMeasureLUFS \/ GateReturn

SpecGating == NormInit /\ [][GatingNext]_vars

NormNext == TargetLufsInput \/ CallMeasureLUFS \/ CallNormalizeToLUFS \/ NormReturn

SpecNormalize == NormInit /\ [][NormNext]_vars

----------------------------------------------------------------------------
(* The block geometry of measureLUFS on its own: blockSize and hopSize as  *)
(* measureLUFS computes them from the buffer's sample rate, for the small  *)
(* rates and for the rates audio hardware uses.                            *)

\* The largest of the consecutive sample rates 1, 2, ... that are tried.
MaxBlockRate == 120

\* The sample rates whose block geometry is computed.
BlockSampleRates == 1..MaxBlockRate \cup {8000, 11025, 22050, 44100, 48000, 96000}

\* The iterations of the block loop that are followed.
MaxBlockIterations == 5

\* The shortest buffer that passes the duration check: the least length with
\* length / sampleRate >= 0.4.
ShortestMeasured(sampleRate) == (sampleRate * BLOCK_SIZE_MS + 999) \div 1000

\* The lengths of the buffers whose block loop is run: the shortest one, and
\* one that is two hops and a sample longer.
BlockLoopLengths(sampleRate) ==
    {ShortestMeasured(sampleRate),
     ShortestMeasured(sampleRate) + 2 * HopSize(sampleRate) + 1}

\* const blockSize = ...; const hopSize = ...; let start = 0, for a buffer of
\* this sample rate and length that passed the duration check.
ComputeBlockSizes ==
    /\ norm.pc = "idle"
    /\ \E sampleRate \in BlockSampleRates :
          \E length \in BlockLoopLengths(sampleRate) :
             norm' = [pc |-> "blocks", sampleRate |-> sampleRate, length |-> length,
                      blockSize |-> BlockSize(sampleRate),
                      hopSize |-> HopSize(sampleRate),
                      start |-> 0, prevStart |-> -1, iterations |-> 0]
    /\ UNCHANGED <<lim, targetLufsDb, encVars, ui>>

\* One iteration of the block loop: start + blockSize <= length, the block is
\* pushed, start += hopSize.
BlockLoopStep ==
    /\ norm.pc = "blocks"
    /\ norm.start + norm.blockSize <= norm.length
    /\ norm.iterations < MaxBlockIterations
    /\ norm' = [norm EXCEPT !.prevStart = norm.start,
                            !.start = norm.start + norm.hopSize,
                            !.iterations = norm.iterations + 1]
    /\ UNCHANGED <<lim, targetLufsDb, encVars, ui>>

\* The block loop is left (start + blockSize > length); measureLUFS gates the
\* blocks and returns; the locals are gone.
BlocksReturn ==
    /\ norm.pc = "blocks"
    /\ norm.start + norm.blockSize > norm.length
    /\ norm' = NormIdle
    /\ UNCHANGED <<lim, targetLufsDb, encVars, ui>>

BlocksNext == ComputeBlockSizes \/ BlockLoopStep \/ BlocksReturn

SpecBlocks == NormInit /\ [][BlocksNext]_vars

----------------------------------------------------------------------------
(* The WAV encoder.  A sample is the integer sample * EncOne, a value of   *)
(* Math.random() the integer value * RandomOne; the view is the sequence   *)
(* of the bytes of the ArrayBuffer, byte offset k at index k + 1.          *)

\* The sample 1.0 (2^17: every sample is a float32, and one step below the
\* quarter of a 16-bit LSB).
EncOne == 131072

\* Math.random() = 1.0 (never returned).
RandomOne == 4

\* a * b as q * d + r with 0 <= r < d, for b >= 0 and d > 0.
RECURSIVE MulQR(_, _, _)
MulQR(a, b, d) ==
    IF b = 0 THEN [q |-> 0, r |-> 0]
    ELSE LET h == MulQR(a, b \div 2, d)
             odd == b % 2 = 1
             r2 == 2 * h.r + (IF odd THEN a % d ELSE 0)
         IN [q |-> 2 * h.q + (IF odd THEN a \div d ELSE 0) + r2 \div d,
             r |-> r2 % d]

\* Math.floor((a * b + c) / d) for b > 0: directly where a * b + c is within
\* 32 bits, by quotient and remainder where it is not.
FloorMulAdd(a, b, c, d) ==
    IF Abs(a) <= (2147483647 - Abs(c)) \div b
    THEN (a * b + c) \div d
    ELSE LET m == MulQR(a, b, d) IN m.q + (m.r + c) \div d

\* triangularDither(): (Math.random() + Math.random()) - 1, times RandomOne.
triangularDither(r1, r2) == (r1 + r2) - RandomOne

\* Math.round(sample * maxVal + dither) for a clamped sample and a dither in
\* units of 1 / RandomOne: Math.floor(x + 0.5).
RoundScaled(sample, maxVal, dither) ==
    FloorMulAdd(sample * 2 * RandomOne, maxVal, (2 * dither + RandomOne) * EncOne,
                2 * RandomOne * EncOne)

\* safeBitDepth = bitDepth === 24 ? 24 : 16
SafeBitDepth(bitDepth) == IF bitDepth = 24 THEN 24 ELSE 16

\* maxVal = safeBitDepth === 16 ? 32767 : 8388607
MaxVal(safeBitDepth) == IF safeBitDepth = 16 THEN 32767 ELSE 8388607

\* A header that carries the buffer's own rate whatever rate is asked for.
HeaderSampleRateOfBuffer(targetSampleRate, audioBuffer) == audioBuffer.sampleRate

\* sampleRate = targetSampleRate || audioBuffer.sampleRate
HeaderSampleRate(targetSampleRate, audioBuffer) ==
    IF targetSampleRate = 0 THEN audioBuffer.sampleRate ELSE targetSampleRate

\* The k-th value Math.random() returns during a call (k from 0).
RandomAt(random, k) == random[(k % Len(random)) + 1]

\* A sample loop that dithers at both bit depths.
ClampedSampleDithered(audioBuffer, safeBitDepth, random, s, ch) ==
    LET n == s * audioBuffer.numberOfChannels + ch
        sample == Max(-EncOne, Min(EncOne, audioBuffer.channels[ch + 1][s + 1]))
        intSample == RoundScaled(sample, MaxVal(safeBitDepth),
                                 triangularDither(RandomAt(random, 2 * n),
                                                  RandomAt(random, 2 * n + 1)))
    IN IF safeBitDepth = 16 THEN Max(-32768, Min(32767, intSample))
       ELSE Max(-8388607, Min(8388607, intSample))

\* The body of the sample loop up to the clamp: the integer written for
\* channelData[ch][s], ch and s counted from 0.  A 16-bit sample takes two
\* values of Math.random(), a 24-bit sample none.
ClampedSample(audioBuffer, safeBitDepth, random, s, ch) ==
    LET n == s * audioBuffer.numberOfChannels + ch
        sample == Max(-EncOne, Min(EncOne, audioBuffer.channels[ch + 1][s + 1]))
        intSample ==
            IF safeBitDepth = 16
            THEN RoundScaled(sample, MaxVal(safeBitDepth),
                             triangularDither(RandomAt(random, 2 * n),
                                              RandomAt(random, 2 * n + 1)))
            ELSE RoundScaled(sample, MaxVal(safeBitDepth), 0)
    IN IF safeBitDepth = 16 THEN Max(-32768, Min(32767, intSample))
       ELSE Max(-8388607, Min(8388607, intSample))

\* view.setUint16(offset, v, true) and view.setUint32(offset, v, true): the
\* bytes written, low byte first.
Uint16Bytes(v) == <<v % 256, (v \div 256) % 256>>

Uint32Bytes(v) == <<v % 256, (v \div 256) % 256, (v \div 65536) % 256,
                    (v \div 16777216) % 256>>

\* The bytes of the magnitude of a sample.
SampleBytesOfMagnitude(clampedSample, safeBitDepth) ==
    IF safeBitDepth = 16 THEN Uint16Bytes(Abs(clampedSample))
    ELSE <<Abs(clampedSample) % 256, (Abs(clampedSample) \div 256) % 256,
           (Abs(clampedSample) \div 65536) % 256>>

\* The bytes of a sample: view.setInt16(offset, clampedSample, true), or the
\* three view.setUint8 of clampedSample & 0xFF, >> 8 and >> 16.
SampleBytes(clampedSample, safeBitDepth) ==
    IF safeBitDepth = 16 THEN Uint16Bytes(clampedSample)
    ELSE <<clampedSample % 256, (clampedSample \div 256) % 256,
           (clampedSample \div 65536) % 256>>

\* The view after bytes are written at a byte offset.
SetBytes(view, offset, bytes) ==
    [k \in 1..Len(view) |->
        IF offset < k /\ k <= offset + Len(bytes) THEN bytes[k - offset] ELSE view[k]]

\* new ArrayBuffer(n): n zero bytes.
ArrayBuffer(n) == [k \in 1..n |-> 0]

\* The char codes of 'RIFF', 'WAVE', 'fmt ' and 'data'.
RIFF == <<82, 73, 70, 70>>

WAVE == <<87, 65, 86, 69>>

FMT == <<102, 109, 116, 32>>

DATA == <<100, 97, 116, 97>>

\* A RIFF chunk size that counts the whole file.
RiffSizeWhole(dataSize) == 44 + dataSize

\* view.setUint32(4, 36 + dataSize, true): the RIFF chunk size.
RiffSize(dataSize) == 36 + dataSize

\* The header writes, in the order of the code.
WriteHeader(view, numChannels, sampleRate, safeBitDepth, dataSize) ==
    LET bytesPerSample == safeBitDepth \div 8
        v0 == SetBytes(view, 0, RIFF)
        v1 == SetBytes(v0, 4, Uint32Bytes(RiffSize(dataSize)))
        v2 == SetBytes(v1, 8, WAVE)
        v3 == SetBytes(v2, 12, FMT)
        v4 == SetBytes(v3, 16, Uint32Bytes(16))
        v5 == SetBytes(v4, 20, Uint16Bytes(1))
        v6 == SetBytes(v5, 22, Uint16Bytes(numChannels))
        v7 == SetBytes(v6, 24, Uint32Bytes(sampleRate))
        v8 == SetBytes(v7, 28, Uint32Bytes(sampleRate * numChannels * bytesPerSample))
        v9 == SetBytes(v8, 32, Uint16Bytes(numChannels * bytesPerSample))
        v10 == SetBytes(v9, 34, Uint16Bytes(safeBitDepth))
        v11 == SetBytes(v10, 36, DATA)
    IN SetBytes(v11, 40, Uint32Bytes(dataSize))

\* view.getUint16(offset, true) and view.getUint32(offset, true) of the tests.
GetUint16(view, offset) == view[offset + 1] + 256 * view[offset + 2]

GetUint32(view, offset) ==
    view[offset + 1] + 256 * view[offset + 2] + 65536 * view[offset + 3]
    + 16777216 * view[offset + 4]

\* view.getInt16(offset, true)
GetInt16(view, offset) ==
    LET u == GetUint16(view, offset) IN IF u >= 32768 THEN u - 65536 ELSE u

\* Math.max(1024, ...): the smallest chunk of encodeWAVAsync.
MinChunkSize == 1024

\* chunkSize = 65536
DefaultChunkSize == 65536

\* safeChunkSize = Math.max(1024, Number(chunkSize) || 65536)
SafeChunkSize(chunkSize) ==
    Max(MinChunkSize, IF chunkSize = 0 THEN DefaultChunkSize ELSE chunkSize)

\* The locals of encodeWAV and of encodeWAVAsync when the header is written
\* (the 44 + dataSize zero bytes of the ArrayBuffer, the first 44 written),
\* and what the caller can observe of the call: the values handed to
\* onProgress, the calls of shouldCancel and of Math.random, the samples
\* quantized.  random is what Math.random() returns during the call.
EncoderEntry(fn, audioBuffer, targetSampleRate, bitDepth, options, random) ==
    LET safeBitDepth == SafeBitDepth(bitDepth)
        numChannels == audioBuffer.numberOfChannels
        sampleRate == HeaderSampleRate(targetSampleRate, audioBuffer)
        bytesPerSample == safeBitDepth \div 8
        numSamples == Len(audioBuffer.channels[1])
        dataSize == numSamples * numChannels * bytesPerSample
    IN [pc |-> "running", fn |-> fn, audioBuffer |-> audioBuffer,
        targetSampleRate |-> targetSampleRate, bitDepth |-> bitDepth,
        options |-> options, random |-> random,
        safeBitDepth |-> safeBitDepth, numChannels |-> numChannels,
        sampleRate |-> sampleRate, bytesPerSample |-> bytesPerSample,
        numSamples |-> numSamples, dataSize |-> dataSize,
        view |-> WriteHeader(ArrayBuffer(44), numChannels, sampleRate,
                             safeBitDepth, dataSize) \o ArrayBuffer(dataSize),
        offset |-> 44, maxVal |-> MaxVal(safeBitDepth),
        safeChunkSize |-> SafeChunkSize(options.chunkSize), i |-> 0,
        progress |-> <<>>, cancelPolls |-> 0, polls |-> <<>>, randomCalls |-> 0,
        quantized |-> 0, error |-> "none"]

\* The sample loops for the frames from..end - 1: every channel of every frame
\* is quantized and written at the offset, which advances by bytesPerSample.
QuantizeFrames(st, from, end) ==
    LET count == (end - from) * st.numChannels
        written == count * st.bytesPerSample
        clampedSample == [n \in 0..(count - 1) |->
                            ClampedSample(st.audioBuffer, st.safeBitDepth, st.random,
                                          from + n \div st.numChannels,
                                          n % st.numChannels)]
    IN [st EXCEPT
          !.view = [k \in 1..Len(st.view) |->
                      IF st.offset < k /\ k <= st.offset + written
                      THEN LET pos == k - 1 - st.offset
                           IN SampleBytes(clampedSample[pos \div st.bytesPerSample],
                                          st.safeBitDepth)[(pos % st.bytesPerSample) + 1]
                      ELSE st.view[k]],
          !.offset = st.offset + written,
          !.quantized = st.quantized + count,
          !.randomCalls = st.randomCalls + (IF st.safeBitDepth = 16 THEN 2 * count ELSE 0)]

\* encodeWAV(audioBuffer, targetSampleRate, bitDepth): a fourth argument is not
\* a parameter of the function.
encodeWAV(audioBuffer, targetSampleRate, bitDepth, options, random) ==
    LET st == EncoderEntry("encodeWAV", audioBuffer, targetSampleRate, bitDepth,
                           options, random)
    IN [QuantizeFrames(st, 0, st.numSamples) EXCEPT !.pc = "returned"]

\* A chunk loop that never asks shouldCancel.
ShouldCancelIgnored(shouldCancel, cancelled) == FALSE

\* shouldCancel && shouldCancel(): null, () => true, or () => processingCancelled.
ShouldCancel(shouldCancel, cancelled) ==
    CASE shouldCancel = "null" -> FALSE
      [] shouldCancel = "always" -> TRUE
      [] shouldCancel = "processingCancelled" -> cancelled

\* After the chunk loop: onProgress(1) and the bytes are returned.
AfterChunks(st) ==
    [st EXCEPT !.pc = "returned", !.progress = Append(st.progress, [num |-> 1, den |-> 1])]

\* A call that resolves with the bytes written so far instead of throwing.
ResolvePartial(st) == [st EXCEPT !.pc = "returned"]

\* throw new Error('Cancelled'): the promise is rejected, no bytes are returned.
ThrowCancelled(st) == [st EXCEPT !.pc = "rejected", !.error = "Cancelled"]

\* A progress value that is the fraction of the frames still to be encoded.
ChunkProgressRemaining(end, numSamples) == [num |-> numSamples - end, den |-> numSamples]

\* The argument of onProgress(end / numSamples), as the fraction num / den.
ChunkProgress(end, numSamples) == [num |-> end, den |-> numSamples]

\* The locals after the poll at the head of a chunk: one more call of the
\* predicate, and what it returned (no call when shouldCancel is null).
Polled(st, cancelled) ==
    IF st.options.shouldCancel = "null" THEN st
    ELSE [st EXCEPT !.cancelPolls = st.cancelPolls + 1,
                    !.polls = Append(st.polls,
                                     ShouldCancel(st.options.shouldCancel, cancelled))]

\* encodeWAVAsync from the test i < numSamples of the chunk loop up to the next
\* await, throw or return.
ChunkLoop(st, cancelled) ==
    IF st.i < st.numSamples
    THEN IF ShouldCancel(st.options.shouldCancel, cancelled)
         THEN ThrowCancelled(Polled(st, cancelled))
         ELSE LET end == Min(st.i + st.safeChunkSize, st.numSamples)
                  done == QuantizeFrames(Polled(st, cancelled), st.i, end)
                  reported == [done EXCEPT !.progress =
                                  Append(done.progress,
                                         ChunkProgress(end, st.numSamples))]
              IN IF end < st.numSamples THEN [reported EXCEPT !.pc = "yielded"]
                 ELSE AfterChunks(reported)
    ELSE AfterChunks(st)

\* encodeWAVAsync(audioBuffer, targetSampleRate, bitDepth, options) up to its
\* first await, throw or return.
encodeWAVAsync(audioBuffer, targetSampleRate, bitDepth, options, random, cancelled) ==
    ChunkLoop(EncoderEntry("encodeWAVAsync", audioBuffer, targetSampleRate, bitDepth,
                           options, random), cancelled)

\* Frames of the short buffers that are encoded, mono and stereo.
MaxEncFrames == 2

MaxEncStereoFrames == 1

\* Samples: a quarter of a 16-bit LSB, -1.0 and 2.0 (out of range).
EncSampleValues == {1, -EncOne, 2 * EncOne}

EncStereoValues == {1, 2 * EncOne}

\* A buffer of more than one chunk of the smallest size.
LongFrames == MinChunkSize + 1

\* The buffers' own rate, and the rates asked for.
EncBufferRate == 48000

TargetSampleRates == {44100, 48000}

BitDepths == {16, 24}

\* Bit depths the encoder does not support.
UnsupportedBitDepths == {8, 32}

DitherModes == {"none", "tpdf", "noise-shaped"}

\* What Math.random() returns during one call: always 0, or always 0.75.
RandomStreams == {<<0>>, <<3>>}

CancelPredicates == {"null", "always", "processingCancelled"}

ChunkSizes == {1, DefaultChunkSize}

\* createAudioBuffer(channels, sampleRate)
createAudioBuffer(channels, sampleRate) ==
    [numberOfChannels |-> Len(channels), sampleRate |-> sampleRate, channels |-> channels]

\* The buffers that are encoded: every short buffer, and a long, very quiet
\* constant signal.
EncBuffers ==
    UNION { { createAudioBuffer(<<c>>, EncBufferRate) : c \in SeqsOfLen(EncSampleValues, n) }
            : n \in 0..MaxEncFrames }
    \cup UNION { { createAudioBuffer(chs, EncBufferRate)
                   : chs \in [1..2 -> SeqsOfLen(EncStereoValues, n)] }
                 : n \in 0..MaxEncStereoFrames }
    \cup { createAudioBuffer(<<[k \in 1..LongFrames |-> 1]>>, EncBufferRate) }

EncInit ==
    /\ lim = LimIdle
    /\ targetLufsDb = DefaultTargetLufsDb
    /\ norm = NormIdle
    /\ audio \in EncBuffers
    /\ enc = EncIdle
    /\ prevWav = NoWav
    /\ processingCancelled = FALSE
    /\ calls = NoCalls
    /\ UiAtRest

\* A call of encodeWAV(audio, targetSampleRate, bitDepth, { ditherMode }) with
\* its arguments taken from the given sets.
EncodeWAVCall(rates, depths, modes, streams) ==
    /\ enc.pc = "idle"
    /\ \E targetSampleRate \in rates, bitDepth \in depths,
          ditherMode \in modes, random \in streams :
          enc' = encodeWAV(audio, targetSampleRate, bitDepth,
                           [ditherMode |-> ditherMode, shouldCancel |-> "null",
                            chunkSize |-> DefaultChunkSize], random)
    /\ UNCHANGED <<lim, targetLufsDb, norm, audio, prevWav, processingCancelled, calls, ui>>

\* A call of encodeWAVAsync(audio, targetSampleRate, bitDepth, options) with its
\* arguments taken from the given sets, run to its first await, its throw or
\* its return.
EncodeWAVAsyncCall(rates, depths, streams, predicates, chunkSizes) ==
    /\ enc.pc = "idle"
    /\ \E targetSampleRate \in rates, bitDepth \in depths,
          random \in streams, shouldCancel \in predicates,
          chunkSize \in chunkSizes :
          enc' = encodeWAVAsync(audio, targetSampleRate, bitDepth,
                                [ditherMode |-> "none", shouldCancel |-> shouldCancel,
                                 chunkSize |-> chunkSize], random, processingCancelled)
    /\ UNCHANGED <<lim, targetLufsDb, norm, audio, prevWav, processingCancelled, calls, ui>>

\* The calls with a supported bit depth.
CallEncodeWAV == EncodeWAVCall(TargetSampleRates, BitDepths, DitherModes, RandomStreams)

CallEncodeWAVAsync ==
    EncodeWAVAsyncCall(TargetSampleRates, BitDepths, RandomStreams, CancelPredicates,
                       ChunkSizes)

\* The timer of yieldToUI fires: i += safeChunkSize and the loop goes on.
ResumeAfterYield ==
    /\ enc.pc = "yielded"
    /\ enc' = ChunkLoop([enc EXCEPT !.pc = "running", !.i = enc.i + enc.safeChunkSize],
                        processingCancelled)
    /\ UNCHANGED <<lim, targetLufsDb, norm, audio, prevWav, processingCancelled, calls, ui>>

\* The cancel button while the encoder has yielded, or after its last chunk
\* when the caller has not yet taken the bytes: processingCancelled = true.
CancelProcessing ==
    /\ \/ enc.pc = "yielded"
       \/ /\ enc.pc = "returned"
          /\ enc.fn = "encodeWAVAsync"
          /\ enc.options.shouldCancel = "processingCancelled"
    /\ ~processingCancelled
    /\ processingCancelled' = TRUE
    /\ UNCHANGED <<lim, targetLufsDb, norm, audio, enc, prevWav, calls, ui>>

\* The caller takes the bytes or the error; the bytes of encodeWAV are kept
\* for the comparison with the next call, and the next export starts with
\* processingCancelled = false.
EncReturn ==
    /\ enc.pc \in {"returned", "rejected"}
    /\ prevWav' = IF enc.fn = "encodeWAV"
                  THEN [fn |-> enc.fn, targetSampleRate |-> enc.targetSampleRate,
                        bitDepth |-> enc.bitDepth, ditherMode |-> enc.options.ditherMode,
                        wav |-> enc.view]
                  ELSE prevWav
    /\ enc' = EncIdle
    /\ processingCancelled' = FALSE
    /\ UNCHANGED <<lim, targetLufsDb, norm, audio, calls, ui>>

EncNext ==
    CallEncodeWAV \/ CallEncodeWAVAsync \/ ResumeAfterYield \/ CancelProcessing \/ EncReturn

SpecEncoder == EncInit /\ [][EncNext]_vars

----------------------------------------------------------------------------
(* The encoder called with any bit depth, supported or not, at the         *)
(* buffer's own rate and with one stream of random numbers.                *)

\* A call of encodeWAV with a bit depth that may be unsupported.
CallEncodeWAVAnyDepth ==
    EncodeWAVCall({EncBufferRate}, BitDepths \cup UnsupportedBitDepths, {"none"},
                  {<<0>>})

\* A call of encodeWAVAsync with a bit depth that may be unsupported.
CallEncodeWAVAsyncAnyDepth ==
    EncodeWAVAsyncCall({EncBufferRate}, BitDepths \cup UnsupportedBitDepths, {<<0>>},
                       {"null", "processingCancelled"}, {1})

BitDepthNext ==
    \/ CallEncodeWAVAnyDepth
    \/ CallEncodeWAVAsyncAnyDepth
    \/ ResumeAfterYield
    \/ CancelProcessing
    \/ EncReturn

SpecBitDepth == EncInit /\ [][BitDepthNext]_vars

----------------------------------------------------------------------------
(* Two calls of encodeWAVAsync in progress together.  JavaScript runs one  *)
(* call at a time from an await to the next; which of two waiting calls    *)
(* the timer of yieldToUI wakes first is not determined.  The calls encode *)
(* 24-bit, without a cancellation predicate, buffers of two chunks.        *)

\* A mono buffer of the given number of frames that repeats a pattern of samples.
PatternBuffer(pattern, frames) ==
    createAudioBuffer(<<[k \in 1..frames |-> pattern[((k - 1) % Len(pattern)) + 1]]>>,
                      EncBufferRate)

\* The sample patterns, of quiet samples (in units of 1 / EncOne).
ConcurrentPatterns == {<<31, -17>>, <<5, 0, -31>>, <<-1>>}

\* The buffers the two callers encode.
ConcurrentBuffers ==
    { PatternBuffer(pattern, LongFrames) : pattern \in ConcurrentPatterns }

\* The locals a call of encodeWAVAsync starts with, for the options used here.
ConcurrentEntry(audioBuffer, targetSampleRate) ==
    EncoderEntry("encodeWAVAsync", audioBuffer, targetSampleRate, 24,
                 [ditherMode |-> "none", shouldCancel |-> "null", chunkSize |-> 1],
                 <<0>>)

\* Locals of a waiting call whose output array and write offset are those of
\* the other call when that one waits too.
ResumedWithSharedOutput(cs, c) ==
    LET other == cs[CHOOSE d \in Callers : d # c]
        shared == other.pc = "yielded"
    IN [cs[c] EXCEPT !.pc = "running", !.i = cs[c].i + cs[c].safeChunkSize,
                     !.view = IF shared THEN other.view ELSE cs[c].view,
                     !.offset = IF shared THEN other.offset ELSE cs[c].offset]

\* The locals call c resumes with after its await: its own, i += safeChunkSize.
Resumed(cs, c) ==
    [cs[c] EXCEPT !.pc = "running", !.i = cs[c].i + cs[c].safeChunkSize]

ConcurrentInit ==
    /\ lim = LimIdle
    /\ targetLufsDb = DefaultTargetLufsDb
    /\ norm = NormIdle
    /\ EncAtRest

\* Caller c calls encodeWAVAsync(buffer, targetSampleRate, 24, { chunkSize }),
\* which runs to its first await.
StartCall(c) ==
    /\ calls[c].pc = "idle"
    /\ \E audioBuffer \in ConcurrentBuffers, targetSampleRate \in TargetSampleRates :
          calls' = [calls EXCEPT ![c] =
                       ChunkLoop(ConcurrentEntry(audioBuffer, targetSampleRate), FALSE)]
    /\ UNCHANGED <<lim, targetLufsDb, norm, audio, enc, prevWav, processingCancelled, ui>>

\* The timer of call c's yieldToUI fires: the call runs to its next await or
\* to its return.
ResumeCall(c) ==
    /\ calls[c].pc = "yielded"
    /\ calls' = [calls EXCEPT ![c] = ChunkLoop(Resumed(calls, c), FALSE)]
    /\ UNCHANGED <<lim, targetLufsDb, norm, audio, enc, prevWav, processingCancelled, ui>>

\* Caller c takes the bytes.
TakeResult(c) ==
    /\ calls[c].pc = "returned"
    /\ calls' = [calls EXCEPT ![c] = EncIdle]
    /\ UNCHANGED <<lim, targetLufsDb, norm, audio, enc, prevWav, processingCancelled, ui>>

ConcurrentNext ==
    \E c \in Callers : StartCall(c) \/ ResumeCall(c) \/ TakeResult(c)

SpecConcurrent == ConcurrentInit /\ [][ConcurrentNext]_vars

-----------------------------------------------------------------------------
(* encodeWAVAsync with any value as options.chunkSize.  A chunk size can be *)
(* a fraction, so here safeChunkSize, i and end are counted in halves of a  *)
(* frame.                                                                   *)

ChunkOne == 2

\* A value passed as options.chunkSize: a finite number (in halves), NaN, a
\* string that is not a number, null, or undefined (the option is absent).
ChunkSizeValue(type, halves) == [type |-> type, halves |-> halves]

\* The options passed: 0, 1, -3, 1024.5, 1025, 65536 and the non-numbers.
ChunkSizeOptions ==
    { ChunkSizeValue("number", h) :
        h \in {0, ChunkOne, -3 * ChunkOne, MinChunkSize * ChunkOne + 1,
               (MinChunkSize + 1) * ChunkOne, DefaultChunkSize * ChunkOne} }
    \cup { ChunkSizeValue(t, 0) : t \in {"NaN", "string", "null", "undefined"} }

\* const { chunkSize = 65536 } = options and
\* Math.max(1024, Number(chunkSize) || 65536): undefined takes the default of
\* the destructuring; Number(null) is 0 and Number of the string is NaN, and
\* 0 and NaN are falsy.
SafeChunkSizeOf(chunkSize) ==
    Max(MinChunkSize * ChunkOne,
        IF chunkSize.type = "number" /\ chunkSize.halves # 0 THEN chunkSize.halves
        ELSE DefaultChunkSize * ChunkOne)

\* The locals of a call with this option (24 bit, no callbacks).
ChunkSizeEntry(audioBuffer, targetSampleRate, chunkSize) ==
    [EncoderEntry("encodeWAVAsync", audioBuffer, targetSampleRate, 24,
                  [ditherMode |-> "none", shouldCancel |-> "null",
                   chunkSize |-> DefaultChunkSize], <<0>>)
     EXCEPT !.options = [ditherMode |-> "none", shouldCancel |-> "null",
                         chunkSize |-> chunkSize],
            !.safeChunkSize = SafeChunkSizeOf(chunkSize)]

\* The frames of a chunk whose index s is not an integer: channelData[ch][s]
\* is undefined, the sample is NaN and NaN & 0xFF is 0, so zero bytes are
\* written for count frames (a 16-bit sample still draws its dither).
WriteUndefinedFrames(st, count) ==
    LET written == count * st.numChannels * st.bytesPerSample
    IN [st EXCEPT
          !.view = [k \in 1..Len(st.view) |->
                      IF st.offset < k /\ k <= st.offset + written THEN 0
                      ELSE st.view[k]],
          !.offset = st.offset + written,
          !.quantized = st.quantized + count * st.numChannels,
          !.randomCalls = st.randomCalls
                          + (IF st.safeBitDepth = 16 THEN 2 * count * st.numChannels
                             ELSE 0)]

\* view.setUint8 at an offset outside the ArrayBuffer throws a RangeError:
\* the promise is rejected.
ThrowRangeError(st) == [st EXCEPT !.pc = "rejected", !.error = "RangeError"]

\* encodeWAVAsync from the test i < numSamples up to the next await, throw or
\* return: s takes the values i, i + 1, ... below end.
ChunkLoopInHalves(st) ==
    IF st.i < st.numSamples * ChunkOne
    THEN LET end == Min(st.i + st.safeChunkSize, st.numSamples * ChunkOne)
             count == (end - st.i + ChunkOne - 1) \div ChunkOne
             done == IF st.i % ChunkOne = 0
                     THEN QuantizeFrames(st, st.i \div ChunkOne,
                                         st.i \div ChunkOne + count)
                     ELSE WriteUndefinedFrames(st, count)
             reported == [done EXCEPT !.progress =
                             Append(done.progress,
                                    ChunkProgress(end, st.numSamples * ChunkOne))]
         IN IF done.offset > Len(st.view) THEN ThrowRangeError(done)
            ELSE IF end < st.numSamples * ChunkOne
            THEN [reported EXCEPT !.pc = "yielded"]
            ELSE AfterChunks(reported)
    ELSE AfterChunks(st)

\* Frames of the short buffers encoded with a chunkSize option.
ShortFrames == 2

ChunkSizeBuffers ==
    { PatternBuffer(pattern, frames) :
        pattern \in ConcurrentPatterns, frames \in {ShortFrames, LongFrames} }

ChunkSizeInit ==
    /\ lim = LimIdle
    /\ targetLufsDb = DefaultTargetLufsDb
    /\ norm = NormIdle
    /\ audio \in ChunkSizeBuffers
    /\ enc = EncIdle
    /\ prevWav = NoWav
    /\ processingCancelled = FALSE
    /\ calls = NoCalls
    /\ UiAtRest

\* A call of encodeWAVAsync(audio, targetSampleRate, 24, { chunkSize }), run
\* to its first await, its throw or its return.
CallWithChunkSize ==
    /\ enc.pc = "idle"
    /\ \E targetSampleRate \in TargetSampleRates, chunkSize \in ChunkSizeOptions :
          enc' = ChunkLoopInHalves(ChunkSizeEntry(audio, targetSampleRate, chunkSize))
    /\ UNCHANGED <<lim, targetLufsDb, norm, audio, prevWav, processingCancelled, calls, ui>>

\* The timer of yieldToUI fires: i += safeChunkSize and the loop goes on.
ResumeWithChunkSize ==
    /\ enc.pc = "yielded"
    /\ enc' = ChunkLoopInHalves([enc EXCEPT !.pc = "running",
                                            !.i = enc.i + enc.safeChunkSize])
    /\ UNCHANGED <<lim, targetLufsDb, norm, audio, prevWav, processingCancelled, calls, ui>>

ChunkSizeNext == CallWithChunkSize \/ ResumeWithChunkSize \/ EncReturn

SpecChunkSize == ChunkSizeInit /\ [][ChunkSizeNext]_vars

-----------------------------------------------------------------------------
(* The page: playback, the cache render, file loading and the export.  A    *)
(* handler runs to its end or to its next await before another one starts;  *)
(* every function below takes the page state u and gives the state the      *)
(* handler leaves.                                                          *)

\* The files the user can choose.
FileIds == {1, 2}

\* The AudioBufferSourceNodes created in one run.
MaxSources == 2

\* The largest fileState.cacheRenderVersion reached in one run.
MaxCacheVersion == 6

\* The clicks on the export button in one run.
MaxExports == 2

\* The chunks encodeWAVAsync needs for the rendered buffer of an export.
ExportChunks == 2

\* stopAudio() as it was before the handler was cleared: the old source is
\* stopped and dropped with its onended handler still attached.
stopAudioKeepingHandler(u) ==
    LET src == u.audioNodes.source
    IN [u EXCEPT
          !.sources = IF src = 0 THEN @
                      ELSE [@ EXCEPT ![src] =
                              [@ EXCEPT !.state = "ended",
                                        !.event = IF u.sources[src].state = "playing"
                                                  THEN "queued" ELSE @]],
          !.audioNodes.source = 0,
          !.playerState.isPlaying = FALSE,
          !.playerState.seekUpdateInterval = FALSE]

\* stopAudio(): the current source is dropped, its onended handler cleared,
\* and it is stopped (which ends it and queues its 'ended' event, unless it
\* had ended already); isPlaying = false, the seek interval is cleared.
stopAudio(u) ==
    LET src == u.audioNodes.source
    IN [u EXCEPT
          !.sources = IF src = 0 THEN @
                      ELSE [@ EXCEPT ![src] =
                              [@ EXCEPT !.onended = FALSE,
                                        !.state = "ended",
                                        !.event = IF u.sources[src].state = "playing"
                                                  THEN "queued" ELSE @]],
          !.audioNodes.source = 0,
          !.playerState.isPlaying = FALSE,
          !.playerState.seekUpdateInterval = FALSE]

\* The buffer playAudio() chooses: "none" when playbackBuffer is null.
PlaybackBuffer(u) ==
    IF u.playerState.isBypassed
    THEN (IF u.fileState.originalBuffer # 0 THEN "original" ELSE "none")
    ELSE IF u.fileState.cachedRenderBuffer # NoBuffer THEN "cached"
    ELSE IF u.fileState.normalizedBuffer # 0 \/ u.audioNodes.buffer THEN "normalized"
    ELSE "none"

\* playAudio(): without a context or a buffer nothing happens; otherwise
\* stopAudio(), then a new source with its onended handler is started,
\* isPlaying = true and the seek interval is set.
playAudio(u) ==
    IF ~u.audioNodes.context \/ PlaybackBuffer(u) = "none" THEN u
    ELSE LET v == stopAudio(u)
         IN [v EXCEPT
               !.sources = Append(@, [state |-> "playing", onended |-> TRUE,
                                      event |-> "none", buffer |-> PlaybackBuffer(u)]),
               !.audioNodes.source = Len(v.sources) + 1,
               !.playerState.isPlaying = TRUE,
               !.playerState.seekUpdateInterval = TRUE]

\* pauseAudio()
pauseAudio(u) == IF ~u.playerState.isPlaying THEN u ELSE stopAudio(u)

\* playAudio() creates a source: the run has room for one more.
RoomForSource(u) == Len(u.sources) < MaxSources

\* scheduleRenderToCache() without the increment of the version.
scheduleRenderSameVersion(u) ==
    [u EXCEPT !.cacheRenderTimeout =
                 [pending |-> TRUE, thisVersion |-> u.fileState.cacheRenderVersion,
                  scheduledAt |-> u.changes + 1],
              !.changes = @ + 1]

\* scheduleRenderToCache(): the pending timer is cleared, the version is
\* incremented and a new timer is set whose callback holds thisVersion.
scheduleRenderToCache(u) ==
    [u EXCEPT !.fileState.cacheRenderVersion = @ + 1,
              !.cacheRenderTimeout =
                 [pending |-> TRUE, thisVersion |-> u.fileState.cacheRenderVersion + 1,
                  scheduledAt |-> u.changes + 1],
              !.changes = @ + 1]

\* updateAudioChain(): the live parameters are applied and the cache render
\* is scheduled, when the chain and a buffer exist.
updateAudioChain(u) ==
    IF ~u.audioNodes.context \/ ~u.audioNodes.highpass THEN u
    ELSE IF u.fileState.originalBuffer # 0 THEN scheduleRenderToCache(u)
    ELSE u

\* The timer callback of scheduleRenderToCache up to its await: it returns
\* without a buffer, schedules again while a render is running, and
\* otherwise starts a render of fileState.originalBuffer, in the worker when
\* it is ready.
cacheTimerCallback(u, workerReady) ==
    LET t == u.cacheRenderTimeout
        fired == [u EXCEPT !.cacheRenderTimeout.pending = FALSE]
    IN IF u.fileState.originalBuffer = 0 THEN fired
       ELSE IF u.fileState.isRenderingCache THEN scheduleRenderToCache(fired)
       ELSE [fired EXCEPT
               !.fileState.isRenderingCache = TRUE,
               !.renders = @ \cup {[thisVersion |-> t.thisVersion,
                                    scheduledAt |-> t.scheduledAt,
                                    input |-> u.fileState.originalBuffer,
                                    worker |-> workerReady]}]

\* The callback after its render r has resolved: the cache is written when
\* thisVersion is still the current version (and playback hot-swapped to the
\* new buffer when the effects are playing), the result is discarded
\* otherwise; finally isRenderingCache = false.
cacheRenderResolved(u, r) ==
    LET buffer == [input |-> r.input, version |-> r.thisVersion]
        log == [thisVersion |-> r.thisVersion, scheduledAt |-> r.scheduledAt,
                finishedAt |-> u.changes,
                wrote |-> r.thisVersion = u.fileState.cacheRenderVersion]
        v == [u EXCEPT !.renders = @ \ {r}, !.finished = log]
        written == [v EXCEPT !.fileState.cachedRenderBuffer = buffer,
                             !.fileState.cachedRenderLufs = buffer,
                             !.audioNodes.buffer =
                                IF ~u.playerState.isPlaying THEN TRUE ELSE @]
        swapped == IF u.playerState.isPlaying /\ ~u.playerState.isBypassed
                      /\ u.audioNodes.context
                   THEN playAudio(written) ELSE written
    IN [(IF log.wrote THEN swapped ELSE v)
        EXCEPT !.fileState.isRenderingCache = FALSE]

\* The callback after its render r has failed: catch, finally.
cacheRenderRejected(u, r) ==
    [u EXCEPT !.renders = @ \ {r},
              !.finished = [thisVersion |-> r.thisVersion,
                            scheduledAt |-> r.scheduledAt,
                            finishedAt |-> u.changes, wrote |-> FALSE],
              !.fileState.isRenderingCache = FALSE]

\* seekTo(time) while playing: the current source is detached and stopped
\* and a new one is started at the new position; isPlaying is left as it is.
seekTo(u) ==
    IF ~u.playerState.isPlaying THEN u
    ELSE LET v == [stopAudio(u) EXCEPT !.playerState.isPlaying = TRUE]
         IN [v EXCEPT
               !.sources = Append(@, [state |-> "playing", onended |-> TRUE,
                                      event |-> "none", buffer |-> PlaybackBuffer(u)]),
               !.audioNodes.source = Len(v.sources) + 1,
               !.playerState.seekUpdateInterval = TRUE]

\* audioNodes.source.onended: if (playerState.isPlaying) isPlaying = false.
onended(u) ==
    IF u.playerState.isPlaying
    THEN [u EXCEPT !.playerState.isPlaying = FALSE,
                   !.playerState.seekUpdateInterval = FALSE]
    ELSE u

\* loadAudioFile(file) up to its first await: initAudioContext().
loadAudioFileStart(u, file) ==
    [u EXCEPT !.audioNodes.context = TRUE,
              !.load = [pc |-> "decoding", file |-> file, result |-> "none"]]

\* A loadFile that does not look at isProcessing.
loadFileUnguarded(u, file) ==
    LET cleaned == IF u.playerState.isPlaying THEN stopAudio(u) ELSE u
    IN IF cleaned.audioNodes.context
       THEN [cleaned EXCEPT !.load = [pc |-> "closing", file |-> file,
                                     result |-> "none"]]
       ELSE loadAudioFileStart(cleaned, file)

\* loadFile(file) up to its first await: refused while an export is running;
\* otherwise cleanupAudioContext() stops the playback and awaits the close of
\* the context, when there is one.
loadFile(u, file) ==
    IF u.isProcessing THEN [u EXCEPT !.load.result = "refused"]
    ELSE loadFileUnguarded(u, file)

\* cleanupAudioContext() after context.close(): every audio node is set to
\* null (the sources of the closed context are silent and fire no event);
\* then loadAudioFile starts.
loadFileClosed(u) ==
    loadAudioFileStart(
        [u EXCEPT !.audioNodes = [context |-> FALSE, highpass |-> FALSE,
                                  source |-> 0, buffer |-> FALSE],
                  !.sources = [i \in DOMAIN u.sources |->
                                 IF u.sources[i].state = "playing"
                                 THEN [u.sources[i] EXCEPT !.state = "ended"]
                                 ELSE u.sources[i]]],
        u.load.file)

\* loadAudioFile after decodeAudioData: the decoded buffer becomes
\* fileState.originalBuffer, the cache is cleared, cacheRenderVersion++.
loadAudioFileDecoded(u) ==
    [u EXCEPT !.fileState.originalBuffer = u.load.file,
              !.fileState.cachedRenderBuffer = NoBuffer,
              !.fileState.cachedRenderLufs = NoBuffer,
              !.fileState.cacheRenderVersion = @ + 1,
              !.changes = @ + 1,
              !.load.pc = "analysing"]

\* decodeAudioData rejects: loadAudioFile returns false, and so does loadFile.
loadAudioFileFailed(u) == [u EXCEPT !.load = [LoadIdle EXCEPT !.result = "false"]]

\* loadAudioFile after the measurement to its end, and loadFile to its end:
\* the normalized buffer is stored, processEffects() sets audioNodes.buffer
\* and schedules the cache render, createAudioChain(), processBtn.disabled =
\* false; then loadFile calls updateAudioChain() and returns true.
loadFileFinished(u) ==
    LET effects == scheduleRenderToCache(
                      [u EXCEPT !.fileState.normalizedBuffer = u.load.file,
                                !.audioNodes.buffer = TRUE])
        loaded == [effects EXCEPT !.audioNodes.highpass = TRUE,
                                   !.processBtn.disabled = FALSE]
    IN [updateAudioChain(loaded) EXCEPT !.load = [LoadIdle EXCEPT !.result = "true"]]

\* A file is chosen in the file input, or dropped on the drop zone (whose
\* handler calls stopAudio() before loadFile).
LoadFileCall ==
    /\ ui.load.pc = "idle"
    /\ \E file \in FileIds, dropped \in BOOLEAN :
          ui' = loadFile(IF dropped THEN stopAudio(ui) ELSE ui, file)
    /\ UNCHANGED <<lim, targetLufsDb, norm, encVars>>

\* context.close() resolves.  The 'ended' events of the context's sources and
\* the resolution of close() are tasks queued by the same rendering thread on
\* one task source: the events queued before it have been dispatched.
LoadContextClosed ==
    /\ ui.load.pc = "closing"
    /\ \A i \in DOMAIN ui.sources : ui.sources[i].event # "queued"
    /\ ui' = loadFileClosed(ui)
    /\ UNCHANGED <<lim, targetLufsDb, norm, encVars>>

\* file.arrayBuffer() and decodeAudioData resolve.
LoadDecoded ==
    /\ ui.load.pc = "decoding"
    /\ ui.fileState.cacheRenderVersion < MaxCacheVersion
    /\ ui' = loadAudioFileDecoded(ui)
    /\ UNCHANGED <<lim, targetLufsDb, norm, encVars>>

\* decodeAudioData rejects.
LoadDecodeFails ==
    /\ ui.load.pc = "decoding"
    /\ ui' = loadAudioFileFailed(ui)
    /\ UNCHANGED <<lim, targetLufsDb, norm, encVars>>

\* The delays of loadAudioFile are over.
LoadFinished ==
    /\ ui.load.pc = "analysing"
    /\ ui.fileState.cacheRenderVersion + 2 <= MaxCacheVersion
    /\ ui' = loadFileFinished(ui)
    /\ UNCHANGED <<lim, targetLufsDb, norm, encVars>>

\* playBtn 'click': pauseAudio() when playing, playAudio() otherwise.
PlayClick ==
    /\ ui.playerState.isPlaying \/ RoomForSource(ui)
    /\ ui' = IF ui.playerState.isPlaying THEN pauseAudio(ui) ELSE playAudio(ui)
    /\ UNCHANGED <<lim, targetLufsDb, norm, encVars>>

\* stopBtn 'click'.
StopClick ==
    /\ ui' = stopAudio(ui)
    /\ UNCHANGED <<lim, targetLufsDb, norm, encVars>>

\* bypassBtn 'click': isBypassed is toggled and a running playback is
\* restarted on the other buffer.
BypassClick ==
    /\ RoomForSource(ui)
    /\ LET toggled == [ui EXCEPT !.playerState.isBypassed = ~@]
       IN ui' = IF ui.playerState.isPlaying THEN playAudio(toggled) ELSE toggled
    /\ UNCHANGED <<lim, targetLufsDb, norm, encVars>>

\* A seek on the waveform.
SeekClick ==
    /\ ui.playerState.isPlaying
    /\ RoomForSource(ui)
    /\ ui' = seekTo(ui)
    /\ UNCHANGED <<lim, targetLufsDb, norm, encVars>>

\* The seek interval finds the position at the end of the buffer: stopAudio().
SeekIntervalAtEnd ==
    /\ ui.playerState.seekUpdateInterval
    /\ ui.playerState.isPlaying
    /\ ui' = stopAudio(ui)
    /\ UNCHANGED <<lim, targetLufsDb, norm, encVars>>

\* A playing source reaches the end of its buffer: its 'ended' event is queued.
SourceEnds ==
    /\ \E i \in DOMAIN ui.sources :
          /\ ui.sources[i].state = "playing"
          /\ ui' = [ui EXCEPT !.sources[i].state = "ended",
                              !.sources[i].event = "queued"]
    /\ UNCHANGED <<lim, targetLufsDb, norm, encVars>>

\* The 'ended' event of source i is dispatched: its onended handler runs, if
\* it still has one.
EndedDispatched(i) ==
    /\ i \in DOMAIN ui.sources
    /\ ui.sources[i].event = "queued"
    /\ LET delivered == [ui EXCEPT !.sources[i].event = "delivered"]
       IN ui' = IF ui.sources[i].onended THEN onended(delivered) ELSE delivered
    /\ UNCHANGED <<lim, targetLufsDb, norm, encVars>>

EndedEvent == \E i \in 1..MaxSources : EndedDispatched(i)

\* A control of the chain is changed: updateAudioChain().
SettingsChange ==
    /\ ui.audioNodes.context /\ ui.audioNodes.highpass
    /\ ui.fileState.originalBuffer # 0
    /\ ui.fileState.cacheRenderVersion < MaxCacheVersion
    /\ ui' = updateAudioChain(ui)
    /\ UNCHANGED <<lim, targetLufsDb, norm, encVars>>

\* The debounce timer fires.
CacheTimerFires ==
    /\ ui.cacheRenderTimeout.pending
    /\ ui.fileState.isRenderingCache
          => ui.fileState.cacheRenderVersion < MaxCacheVersion
    /\ \E workerReady \in BOOLEAN : ui' = cacheTimerCallback(ui, workerReady)
    /\ UNCHANGED <<lim, targetLufsDb, norm, encVars>>

\* dspWorker.renderFullChain rejects: the callback falls back to
\* renderToAudioBuffer(fileState.originalBuffer, ...) and awaits it.
CacheWorkerFails ==
    /\ \E r \in ui.renders :
          /\ r.worker
          /\ ui' = [ui EXCEPT !.renders =
                       (@ \ {r}) \cup {[r EXCEPT !.worker = FALSE,
                                                 !.input = ui.fileState.originalBuffer]}]
    /\ UNCHANGED <<lim, targetLufsDb, norm, encVars>>

\* A cache render resolves.
CacheRenderCompletes ==
    /\ \E r \in ui.renders :
          /\ (ui.playerState.isPlaying /\ r.thisVersion = ui.fileState.cacheRenderVersion)
                => RoomForSource(ui)
          /\ ui' = cacheRenderResolved(ui, r)
    /\ UNCHANGED <<lim, targetLufsDb, norm, encVars>>

\* The main-thread render of a cache render rejects.
CacheRenderFails ==
    /\ \E r \in ui.renders : ~r.worker /\ ui' = cacheRenderRejected(ui, r)
    /\ UNCHANGED <<lim, targetLufsDb, norm, encVars>>

\* processAudio leaves: the outcome is shown, isProcessing = false and
\* processBtn.disabled = false; a successful export has clicked the download
\* link before.
exitProcessAudio(u, e, outcome) ==
    [u EXCEPT !.exports[e] = [@ EXCEPT !.pc = "done", !.outcome = outcome],
              !.downloads = IF outcome = "success" THEN @ \cup {e} ELSE @,
              !.isProcessing = FALSE,
              !.processBtn.disabled = FALSE]

\* processAudio from the end of the rendering: if (processingCancelled) throw,
\* otherwise the blob is built and the download link clicked.
download(u, e, cancelled) ==
    exitProcessAudio(u, e, IF cancelled THEN "cancelled" ELSE "success")

\* encodeWAVAsync inside processAudio, from the head of a chunk to the next
\* await or to the end of processAudio: shouldCancel is () => processingCancelled.
encodeChunk(u, e, cancelled) ==
    IF cancelled THEN exitProcessAudio(u, e, "cancelled")
    ELSE IF u.exports[e].chunksLeft > 1
    THEN [u EXCEPT !.exports[e].pc = "encoding", !.exports[e].chunksLeft = @ - 1]
    ELSE download(u, e, cancelled)

\* The click handler of processBtn and processAudio() up to its first await:
\* isProcessing = true, processBtn.disabled = true; invalid settings and a
\* missing buffer leave at once.
startProcessing(u, valid, workerReady) ==
    LET e == Len(u.exports) + 1
        started == [u EXCEPT !.isProcessing = TRUE,
                             !.processBtn.disabled = TRUE,
                             !.exports = Append(@, [pc |-> "start",
                                                    chunksLeft |-> ExportChunks,
                                                    cancelled |-> FALSE,
                                                    outcome |-> "none"])]
    IN IF ~valid THEN exitProcessAudio(started, e, "invalid")
       ELSE IF u.fileState.originalBuffer = 0 THEN exitProcessAudio(started, e, "error")
       ELSE [started EXCEPT !.exports[e].pc =
                               IF workerReady THEN "rendering" ELSE "offline"]

\* processBtn 'click' (a disabled button dispatches no click; without a
\* buffer the handler returns): processingCancelled = false and processAudio().
ProcessClick ==
    /\ ~ui.processBtn.disabled
    /\ ui.audioNodes.buffer
    /\ Len(ui.exports) < MaxExports
    /\ processingCancelled' = FALSE
    /\ \E valid \in BOOLEAN, workerReady \in BOOLEAN :
          ui' = startProcessing(ui, valid, workerReady)
    /\ UNCHANGED <<lim, targetLufsDb, norm, audio, enc, prevWav, calls>>

\* cancelBtn or modalCancelBtn 'click': cancelProcessing().  The exports that
\* are running are marked as cancelled.
CancelClick ==
    /\ ui.isProcessing
    /\ ~processingCancelled
    /\ processingCancelled' = TRUE
    /\ ui' = [ui EXCEPT !.exports =
                 [e \in DOMAIN ui.exports |->
                    IF ui.exports[e].pc # "done"
                    THEN [ui.exports[e] EXCEPT !.cancelled = TRUE]
                    ELSE ui.exports[e]]]
    /\ UNCHANGED <<lim, targetLufsDb, norm, audio, enc, prevWav, calls>>

\* dspWorker.renderFullChain resolves: cancelled, or the yield before encoding.
ExportRenderResolves(e) ==
    /\ ui.exports[e].pc = "rendering"
    /\ ui' = IF processingCancelled THEN exitProcessAudio(ui, e, "cancelled")
             ELSE [ui EXCEPT !.exports[e].pc = "yield"]

\* dspWorker.renderFullChain rejects: cancelled, or the main-thread render.
ExportRenderRejects(e) ==
    /\ ui.exports[e].pc = "rendering"
    /\ ui' = IF processingCancelled THEN exitProcessAudio(ui, e, "cancelled")
             ELSE [ui EXCEPT !.exports[e].pc = "offline"]

\* The timer before the encoding, or the timer of a yield of encodeWAVAsync,
\* fires.
ExportEncoderResumes(e) ==
    /\ ui.exports[e].pc \in {"yield", "encoding"}
    /\ ui' = encodeChunk(ui, e, processingCancelled)

\* renderOffline resolves with the bytes.
ExportOfflineResolves(e) ==
    /\ ui.exports[e].pc = "offline"
    /\ ui' = download(ui, e, processingCancelled)

\* renderOffline rejects.
ExportOfflineRejects(e) ==
    /\ ui.exports[e].pc = "offline"
    /\ ui' = exitProcessAudio(ui, e, IF processingCancelled THEN "cancelled"
                                     ELSE "error")

\* A step of a running export.
ExportStep ==
    /\ \E e \in DOMAIN ui.exports :
          \/ ExportRenderResolves(e)
          \/ ExportRenderRejects(e)
          \/ ExportEncoderResumes(e)
          \/ ExportOfflineResolves(e)
          \/ ExportOfflineRejects(e)
    /\ UNCHANGED <<lim, targetLufsDb, norm, encVars>>

\* The page after its script has run.
PageInit ==
    /\ lim = LimIdle
    /\ targetLufsDb = DefaultTargetLufsDb
    /\ norm = NormIdle
    /\ EncAtRest

LoadStep ==
    LoadFileCall \/ LoadContextClosed \/ LoadDecoded \/ LoadDecodeFails \/ LoadFinished

\* The cache render, with file loading and the play and stop buttons.
CacheNext ==
    \/ SettingsChange \/ CacheTimerFires \/ CacheWorkerFails
    \/ CacheRenderCompletes \/ CacheRenderFails
    \/ LoadStep
    \/ PlayClick \/ StopClick \/ EndedEvent

SpecCache == PageInit /\ [][CacheNext]_vars

\* Playback, with file loading and the cache render that hot-swaps the buffer.
PlaybackNext ==
    \/ PlayClick \/ StopClick \/ BypassClick \/ SeekClick \/ SeekIntervalAtEnd
    \/ SourceEnds \/ EndedEvent
    \/ LoadStep
    \/ CacheTimerFires \/ CacheRenderCompletes

SpecPlayback == PageInit /\ [][PlaybackNext]_vars

\* The export, its cancellation and file loading.
ExportNext == ProcessClick \/ CancelClick \/ ExportStep \/ LoadStep

SpecExport == PageInit /\ [][ExportNext]_vars

----------------------------------------------------------------------------
(* Claims about the limiter.                                               *)

\* ceilingLinear raised by 0.01 dB (a factor of 1.001152), as a true peak of
\* the output buffer.
CeilingPlusTolerance(ceilingLinear) ==
    LET c == ceilingLinear * PeakScale
    IN c + (c * 1152) \div 1000000

\* C1: the true peak of the buffer applyLookaheadLimiter returns, measured as
\* findTruePeak measures it, is at most the ceiling plus 0.01 dB.
C1_TruePeakWithinCeiling ==
    lim.pc = "done" =>
        MaxTruePeak(lim.outputBuffer) <= CeilingPlusTolerance(lim.ceilingLinear)

\* C2: every value of the gain envelope, and the held gain of pass 2, is
\* greater than 0 and at most 1.0 at every point of both passes and at the end.
C2_GainEnvelopeWithinUnit ==
    /\ \A j \in DOMAIN lim.gainEnvelope :
          0 < lim.gainEnvelope[j] /\ lim.gainEnvelope[j] <= GainOne
    /\ 0 < lim.currentGain /\ lim.currentGain <= GainOne

\* C2's case: the limiter has finished, pass 1 reduced the gain somewhere and
\* pass 2 released it at a later position.
C2_Witness ==
    /\ lim.pc = "done"
    /\ \E j \in DOMAIN lim.gainEnvelope :
          /\ lim.pass1Envelope[j] < GainOne
          /\ \E k \in DOMAIN lim.gainEnvelope :
                /\ k > j
                /\ lim.gainEnvelope[k] > lim.gainEnvelope[j]
                /\ lim.gainEnvelope[k] < GainOne

\* The true peak pass 1 computes at index i: the largest over the channels.
Pass1TruePeak(audioBuffer, i) ==
    SetMax({ PeakAt(audioBuffer.channels[ch], i) : ch \in DOMAIN audioBuffer.channels })

C19_Pass2NeverLoosens ==
    lim.pc \in {"pass2", "done"} =>
        \A j \in 1..(IF lim.pc = "done" THEN lim.audioBuffer.length ELSE lim.i) :
            lim.gainEnvelope[j] <= lim.pass1Envelope[j]

----------------------------------------------------------------------------
(* Claims about loudness measurement and normalization.                    *)

\* Every sample of every channel is zero.
AllZero(audioBuffer) ==
    \A ch \in DOMAIN audioBuffer.channels :
        \A i \in DOMAIN audioBuffer.channels[ch] : audioBuffer.channels[ch][i] = 0

\* C3: for every all-zero buffer, of any length, measureLUFS returns -Infinity.
C3_AllZeroMeasuresNegInfinity ==
    (norm.pc = "measured" /\ AllZero(norm.audioBuffer)) =>
        norm.currentLUFS = NegInfinity

\* C4: for a buffer that is silent or shorter than one 400 ms block,
\* normalizeToLUFS returns the input buffer itself: no gain is applied and the
\* limiter is not invoked.
C4_SilentOrShortReturnsInput ==
    (norm.pc = "normalized"
        /\ (AllZero(norm.audioBuffer) \/ TooShort(norm.audioBuffer))) =>
        /\ norm.out.returned = "input"
        /\ ~norm.out.gainApplied
        /\ ~norm.out.limiterInvoked

C16_StagesLeaveInputUntouched ==
    /\ norm.pc = "measured" =>
          /\ norm.memory.channels = norm.audioBuffer.channels
          /\ ~TooShort(norm.audioBuffer) =>
                norm.memory.filtered =
                    [ch \in DOMAIN norm.audioBuffer.channels |->
                        applyBiquadFilter(norm.audioBuffer.channels[ch],
                            calcHighShelfCoeffs(norm.audioBuffer.sampleRate))]
    /\ norm.pc = "normalized" =>
          /\ norm.memory.audioBuffer = norm.audioBuffer.channels
          /\ norm.out.gainApplied =>
                LET gained == GainedBuffer(norm.audioBuffer,
                                  DbToLinear(norm.targetLUFS * DbOne
                                             - norm.out.currentLUFS.db))
                IN /\ norm.out.returned # "input"
                   /\ norm.memory.gainedBuffer = gained.channels
                   /\ norm.out.limiterInvoked =>
                         norm.memory.limitedBuffer = norm.out.buffer.channels
                   /\ ~norm.out.limiterInvoked =>
                         norm.memory.gainedBuffer = norm.out.buffer.channels
                   /\ norm.out.buffer.length = norm.audioBuffer.length
                   /\ norm.out.buffer.numberOfChannels = norm.audioBuffer.numberOfChannels
                   /\ norm.out.buffer.sampleRate = norm.audioBuffer.sampleRate
                   /\ \A ch \in DOMAIN norm.out.buffer.channels :
                         Len(norm.out.buffer.channels[ch]) = norm.audioBuffer.length

\* C16's case: a stereo buffer of at least one block was filtered, gained and
\* limited, and the limiter's output differs from the gained buffer, which
\* differs from the input.
C16_Witness ==
    /\ norm.pc = "normalized"
    /\ norm.audioBuffer.numberOfChannels = 2
    /\ ~TooShort(norm.audioBuffer)
    /\ norm.out.limiterInvoked
    /\ norm.memory.limitedBuffer # norm.memory.gainedBuffer
    /\ norm.memory.gainedBuffer # norm.memory.audioBuffer

\* C17: what measureLUFS and normalizeToLUFS return is a function of their
\* arguments alone: the result of the call is the result the same call gives
\* under every value the target-LUFS control may have been set to.
C17_ResultIndependentOfControl ==
    /\ norm.pc = "measured" =>
          \A t \in TargetLufsValues :
              norm.currentLUFS = measureLUFS(norm.audioBuffer, t)
    /\ norm.pc = "normalized" =>
          \A t \in TargetLufsValues :
              norm.out = normalizeToLUFS(norm.audioBuffer, norm.targetLUFS,
                                         norm.ceilingDB, t)

\* The sum of x * x over the samples first..last (0-based) of one channel.
RECURSIVE SquaresBetween(_, _, _)
SquaresBetween(channelData, first, last) ==
    IF first > last THEN 0
    ELSE channelData[last + 1] * channelData[last + 1]
         + SquaresBetween(channelData, first, last - 1)

\* C21: for a buffer that passes the duration check, the blocks measureLUFS
\* analyses start at 0, hop, 2 * hop, ... as long as start + blockSize <=
\* length and no further; every index read is inside the buffer; each block's
\* value is the sum of squares of the filtered samples over all channels and
\* the blockSize samples, divided by blockSize * channels; and there is at
\* least one block.
C21_BlocksCoverBuffer ==
    (norm.pc = "measured" /\ ~TooShort(norm.audioBuffer)) =>
        LET blockSize == BlockSize(norm.audioBuffer.sampleRate)
            hopSize == HopSize(norm.audioBuffer.sampleRate)
            length == norm.audioBuffer.length
            count == Len(norm.blockStarts)
            filtered == FilteredChannels(norm.audioBuffer)
        IN /\ count >= 1
           /\ Len(norm.blocks) = count
           /\ count * hopSize + blockSize > length
           /\ \A j \in 1..count :
                 LET start == norm.blockStarts[j]
                 IN /\ start = (j - 1) * hopSize
                    /\ 0 <= start
                    /\ start + blockSize <= length
                    /\ norm.blocks[j] =
                          RoundDiv(SquaresBetween(filtered[1], start,
                                                  start + blockSize - 1)
                                   + (IF norm.audioBuffer.numberOfChannels = 2
                                      THEN SquaresBetween(filtered[2], start,
                                                          start + blockSize - 1)
                                      ELSE 0),
                                   blockSize * norm.audioBuffer.numberOfChannels)

\* C21's case: a stereo buffer of two overlapping blocks whose energies differ
\* and to which both channels contribute.
C21_Witness ==
    /\ norm.pc = "measured"
    /\ norm.audioBuffer.numberOfChannels = 2
    /\ Len(norm.blocks) = 2
    /\ norm.blocks[1] # norm.blocks[2]
    /\ norm.blocks[1] > 0
    /\ \E i \in 1..4 : norm.audioBuffer.channels[1][i] # 0
    /\ \E i \in 1..4 : norm.audioBuffer.channels[2][i] # 0

\* The indices of the blocks above the absolute gate.
AboveAbsoluteGate(blocks) ==
    {i \in DOMAIN blocks : blocks[i] > ABSOLUTE_GATE_LINEAR}

\* The sum of the blocks with an index in S.
SumOfBlocks(blocks, S) ==
    SumOver([i \in DOMAIN blocks |-> IF i \in S THEN blocks[i] ELSE 0], 1, Len(blocks))

\* One tenth of the mean of the blocks above the absolute gate.
RelativeThreshold(blocks) ==
    RoundDiv(RoundDiv(SumOfBlocks(blocks, AboveAbsoluteGate(blocks)),
                      Cardinality(AboveAbsoluteGate(blocks))),
             RELATIVE_GATE_DIVISOR)

\* The indices of the blocks above both thresholds.
AboveBothGates(blocks) ==
    {i \in AboveAbsoluteGate(blocks) : blocks[i] > RelativeThreshold(blocks)}

\* C23: the integrated loudness is -0.691 + 10 log10 of the mean of exactly
\* the blocks whose mean square is above 1e-7 and above one tenth of the mean
\* of the blocks above 1e-7; a block equal to a threshold is not counted.
C23_TwoStageGating ==
    (norm.pc \in {"gated", "measured"} /\ Len(norm.blocks) > 0) =>
        LET both == AboveBothGates(norm.blocks)
        IN IF both = {} THEN norm.currentLUFS = NegInfinity
           ELSE norm.currentLUFS =
                  Finite(LOUDNESS_OFFSET
                         + TenLog10(RoundDiv(SumOfBlocks(norm.blocks, both),
                                             Cardinality(both)),
                                    SampleOne * SampleOne))

\* A blocks array with a block equal to the absolute gate, a block equal to
\* the relative threshold and a block above both.
C23_Witness ==
    /\ norm.pc = "gated"
    /\ \E i \in DOMAIN norm.blocks : norm.blocks[i] = ABSOLUTE_GATE_LINEAR
    /\ \E j \in AboveAbsoluteGate(norm.blocks) :
          norm.blocks[j] = RelativeThreshold(norm.blocks)
    /\ Cardinality(AboveBothGates(norm.blocks)) = 1
    /\ isFinite(norm.currentLUFS)

\* C24: for a buffer that yields at least one block, the relative gate leaves
\* at least one of the blocks that passed the absolute gate, and measureLUFS
\* returns -Infinity exactly when no block passes the absolute gate; every
\* other result is finite.
C24_RelativeGateKeepsABlock ==
    (norm.pc \in {"gated", "measured"} /\ Len(norm.blocks) > 0) =>
        /\ AboveAbsoluteGate(norm.blocks) # {}
              => Len(RelativeGated(AbsoluteGated(norm.blocks))) >= 1
        /\ norm.currentLUFS = NegInfinity <=> AboveAbsoluteGate(norm.blocks) = {}
        /\ norm.currentLUFS # NegInfinity => isFinite(norm.currentLUFS)

\* A measured buffer with a silent block and a block above the absolute gate,
\* and a finite loudness.
C24_Witness ==
    /\ norm.pc = "measured"
    /\ Len(norm.blocks) = 2
    /\ Cardinality(AboveAbsoluteGate(norm.blocks)) = 1
    /\ isFinite(norm.currentLUFS)

\* The largest absolute raw sample value of any channel.
LargestSample(channels) ==
    SetMax({Abs(channels[ch][i]) : ch \in DOMAIN channels, i \in 1..Len(channels[1])})

\* C25: the linear true peak findTruePeak computes is never smaller than the
\* largest absolute raw sample value of any channel of the buffer, whatever
\* the length of the buffer and wherever the largest sample sits.
C25_TruePeakCoversSamples ==
    norm.pc = "normalized" =>
        norm.maxPeak >= PeakScale * LargestSample(norm.audioBuffer.channels)

\* C22: the block loop of measureLUFS advances by a hop of at least one
\* sample: after every iteration start is greater than it was before, so the
\* loop ends after finitely many iterations for every sample rate.
C22_BlockLoopAdvances ==
    norm.pc = "blocks" =>
        /\ norm.hopSize >= 1
        /\ norm.iterations >= 1 => norm.start > norm.prevStart

\* C20 as stated: blockSize is sampleRate * 0.4 rounded to the nearest integer
\* and hopSize is sampleRate * 0.4 * 0.25 rounded to the nearest integer.
C20_BlockSizesRounded ==
    norm.pc = "blocks" =>
        /\ norm.blockSize = RoundDiv(norm.sampleRate * 4, 10)
        /\ norm.hopSize = RoundDiv(norm.sampleRate, 10)

\* C20, amended: blockSize is the largest integer that is at most
\* sampleRate * 0.4 and hopSize the largest integer that is at most
\* sampleRate * 0.1 (both rounded down, so hopSize is 0 below 10 Hz).
C20_BlockSizesFloored ==
    norm.pc = "blocks" =>
        /\ 10 * norm.blockSize <= 4 * norm.sampleRate
        /\ 4 * norm.sampleRate < 10 * (norm.blockSize + 1)
        /\ 10 * norm.hopSize <= norm.sampleRate
        /\ norm.sampleRate < 10 * (norm.hopSize + 1)

\* C20's case: the block geometry at 11025 Hz, where sampleRate * 0.1 is
\* 1102.5 and the hop is 1102.
C20_Witness ==
    /\ norm.pc = "blocks"
    /\ norm.sampleRate = 11025
    /\ norm.blockSize = 4410
    /\ norm.hopSize = 1102

----------------------------------------------------------------------------
(* Claims about the WAV encoder.                                           *)

\* The PCM payload of a WAV: the bytes after the 44 bytes of the header.
Payload(wav) == SubSeq(wav, 45, Len(wav))

\* encodeWAV has returned and the bytes of an earlier call of encodeWAV on the
\* same buffer, with the same target rate, are at hand.
TwoEncodes(bitDepth) ==
    /\ enc.pc = "returned"
    /\ enc.fn = "encodeWAV"
    /\ prevWav.fn = "encodeWAV"
    /\ enc.bitDepth = bitDepth
    /\ prevWav.bitDepth = bitDepth
    /\ enc.targetSampleRate = prevWav.targetSampleRate

\* C5: two calls of encodeWAV on the same buffer with bit depth 16 and
\* ditherMode 'none' return byte-identical output.
C5_NoneIsDeterministic ==
    (TwoEncodes(16) /\ enc.options.ditherMode = "none" /\ prevWav.ditherMode = "none") =>
        enc.view = prevWav.wav

\* C6: at bit depth 24 encodeWAV returns byte-identical output whatever the
\* dither modes of the two calls are, and a 24-bit encode never draws a dither
\* value.
C6_DitherModeIgnoredAt24 ==
    /\ TwoEncodes(24) => enc.view = prevWav.wav
    /\ (enc.pc \in {"returned", "yielded", "rejected"} /\ enc.safeBitDepth = 24) =>
          enc.randomCalls = 0

\* C6's case: a 24-bit encode with ditherMode 'noise-shaped' has quantized
\* samples after a 24-bit encode of the same buffer with ditherMode 'none'.
C6_Witness ==
    /\ TwoEncodes(24)
    /\ enc.options.ditherMode = "noise-shaped"
    /\ prevWav.ditherMode = "none"
    /\ enc.quantized > 0
    /\ \E k \in 45..Len(enc.view) : enc.view[k] # 0

\* Every sample of the buffer that is encoded is the same value of less than
\* half a 16-bit LSB, and there is at least one.
QuietConstant(audioBuffer) ==
    /\ Len(audioBuffer.channels[1]) > 0
    /\ \A ch \in DOMAIN audioBuffer.channels :
          \A i \in DOMAIN audioBuffer.channels[ch] :
              /\ audioBuffer.channels[ch][i] = audioBuffer.channels[1][1]
              /\ Abs(audioBuffer.channels[ch][i]) <= EncOne \div (2 * 32767)

\* C7: for a quiet constant signal the 16-bit output with ditherMode 'tpdf'
\* differs from the output with ditherMode 'none', which is all zero samples.
C7_TpdfDiffersFromNone ==
    (TwoEncodes(16) /\ QuietConstant(audio)
        /\ prevWav.ditherMode = "none" /\ enc.options.ditherMode = "tpdf") =>
        /\ Payload(enc.view) # Payload(prevWav.wav)
        /\ \A k \in 45..Len(prevWav.wav) : prevWav.wav[k] = 0
        /\ \E k \in 45..Len(enc.view) : enc.view[k] # 0

\* The frames of the buffer that is encoded.
FrameCount == Len(audio.channels[1])

\* C8: the header of the bytes encodeWAV and encodeWAVAsync return carries the
\* target sample rate at offset 24, the bit depth at offset 34 and frames *
\* channels * bytesPerSample at offset 40; the payload is not resampled: it
\* holds every frame of the buffer once, and at 24 bits it is the same bytes
\* for every target rate.
C8_HeaderCarriesTarget ==
    enc.pc = "returned" =>
        /\ GetUint32(enc.view, 24) = enc.targetSampleRate
        /\ GetUint16(enc.view, 34) = enc.bitDepth
        /\ GetUint32(enc.view, 40) = FrameCount * audio.numberOfChannels * (enc.bitDepth \div 8)
        /\ Len(Payload(enc.view)) = FrameCount * audio.numberOfChannels * (enc.bitDepth \div 8)
        /\ (prevWav.fn = "encodeWAV" /\ prevWav.bitDepth = 24 /\ enc.bitDepth = 24) =>
              Payload(enc.view) = Payload(prevWav.wav)

\* C8's case: encodeWAVAsync has returned the 24-bit encoding of a buffer with
\* frames for a target rate that is not the buffer's, after encodeWAV encoded
\* it for the buffer's own rate.
C8_Witness ==
    /\ enc.pc = "returned"
    /\ enc.fn = "encodeWAVAsync"
    /\ enc.targetSampleRate # audio.sampleRate
    /\ FrameCount > 0
    /\ enc.bitDepth = 24
    /\ prevWav.fn = "encodeWAV"
    /\ prevWav.bitDepth = 24
    /\ prevWav.targetSampleRate = audio.sampleRate

\* C9: the bytes encodeWAV and encodeWAVAsync return are 44 + dataSize long,
\* the RIFF chunk size is 36 + dataSize, dataSize is frames * channels *
\* bytesPerSample, block align is channels * bytesPerSample, byte rate is
\* sampleRate * block align, and the write offset has reached the end.
C9_ContainerInvariants ==
    enc.pc = "returned" =>
        LET dataSize == GetUint32(enc.view, 40)
            bytesPerSample == GetUint16(enc.view, 34) \div 8
            blockAlign == GetUint16(enc.view, 32)
        IN /\ Len(enc.view) = 44 + dataSize
           /\ GetUint32(enc.view, 4) = 36 + dataSize
           /\ dataSize = FrameCount * audio.numberOfChannels * bytesPerSample
           /\ GetUint16(enc.view, 22) = audio.numberOfChannels
           /\ blockAlign = audio.numberOfChannels * bytesPerSample
           /\ GetUint32(enc.view, 28) = GetUint32(enc.view, 24) * blockAlign
           /\ enc.offset = Len(enc.view)

\* C9's case: encodeWAVAsync has returned after more than one chunk.
C9_Witness ==
    /\ enc.pc = "returned"
    /\ enc.fn = "encodeWAVAsync"
    /\ enc.numSamples > enc.safeChunkSize
    /\ enc.quantized = enc.numSamples * enc.numChannels

\* encodeWAVAsync was called with shouldCancel: () => true and has reached an
\* await, its throw or its return.
CalledWithAlwaysCancel ==
    /\ enc.pc \in {"yielded", "returned", "rejected"}
    /\ enc.fn = "encodeWAVAsync"
    /\ enc.options.shouldCancel = "always"

\* The call was rejected with Cancelled before any output: no sample was
\* quantized, onProgress was not called and no bytes were returned.
CancelledBeforeOutput ==
    /\ enc.pc = "rejected"
    /\ enc.error = "Cancelled"
    /\ enc.quantized = 0
    /\ enc.randomCalls = 0
    /\ enc.progress = <<>>
    /\ \A k \in 45..Len(enc.view) : enc.view[k] = 0

\* C10 as stated: encodeWAVAsync with a predicate that always returns true is
\* rejected with Cancelled before any output, for every buffer.
C10_AlwaysCancelRejects == CalledWithAlwaysCancel => CancelledBeforeOutput

\* C10, amended: the same for every buffer that has at least one frame.  (With
\* no frame the chunk loop is not entered and shouldCancel is never called.)
C10_AlwaysCancelRejectsFrames ==
    (CalledWithAlwaysCancel /\ enc.numSamples > 0) => CancelledBeforeOutput

\* C10's case: a buffer with frames, encodeWAVAsync called with the predicate
\* that always returns true, and the call has ended.
C10_Witness ==
    /\ CalledWithAlwaysCancel
    /\ enc.numSamples > 0
    /\ enc.pc = "rejected"
    /\ enc.cancelPolls = 1

\* C14: a call of encodeWAV or encodeWAVAsync with a bit depth other than 16
\* or 24 fails with InvalidConfiguration: no sample is quantized and no bytes
\* are returned.
C14_UnsupportedBitDepthRejected ==
    (enc.pc \in {"yielded", "returned", "rejected"} /\ enc.bitDepth \notin {16, 24}) =>
        /\ enc.pc = "rejected"
        /\ enc.error = "InvalidConfiguration"
        /\ enc.quantized = 0

\* encodeWAVAsync has reached an await, its throw or its return.
AsyncAtRest ==
    /\ enc.pc \in {"yielded", "returned", "rejected"}
    /\ enc.fn = "encodeWAVAsync"

\* The frames of the first k chunks.
FramesOfChunks(k) == Min(k * enc.safeChunkSize, enc.numSamples)

\* C11: the cancellation predicate is called once per chunk started, before
\* the chunk and never inside it; a poll that returns true is the last one and
\* ends the call with Cancelled, the chunks before it written completely and
\* nothing after them; a call whose polls all returned false resolves with
\* every byte written, whatever the predicate would answer afterwards.
C11_PolledOncePerChunk ==
    (AsyncAtRest /\ enc.options.shouldCancel # "null") =>
        LET written == Len(enc.polls) - (IF enc.pc = "rejected" THEN 1 ELSE 0)
        IN /\ enc.cancelPolls = Len(enc.polls)
           /\ \A j \in 1..Len(enc.polls) :
                 enc.polls[j] = (enc.pc = "rejected" /\ j = Len(enc.polls))
           /\ enc.quantized = FramesOfChunks(written) * enc.numChannels
           /\ enc.offset = 44 + enc.quantized * enc.bytesPerSample
           /\ enc.pc = "yielded" =>
                 /\ written >= 1
                 /\ enc.i = (written - 1) * enc.safeChunkSize
                 /\ FramesOfChunks(written) < enc.numSamples
           /\ enc.pc = "rejected" =>
                 /\ enc.error = "Cancelled"
                 /\ enc.i = written * enc.safeChunkSize
                 /\ enc.i < enc.numSamples
                 /\ \A k \in (enc.offset + 1)..Len(enc.view) : enc.view[k] = 0
           /\ enc.pc = "returned" =>
                 /\ enc.error = "none"
                 /\ FramesOfChunks(written) = enc.numSamples
                 /\ enc.offset = Len(enc.view)

\* C11's case: the predicate answered false before the first chunk and true
\* before the second; the call was rejected with the first chunk written.
C11_Witness ==
    /\ AsyncAtRest
    /\ enc.pc = "rejected"
    /\ enc.polls = <<FALSE, TRUE>>
    /\ enc.quantized = enc.safeChunkSize
    /\ processingCancelled

\* C12: the chunks are written in order, onProgress is called after each with
\* the fraction of the frames written so far and once more with 1 before the
\* bytes are returned; the values reported are greater than 0, at most 1 and
\* never decrease.
C12_ProgressInOrder ==
    AsyncAtRest =>
        LET chunks == Len(enc.progress) - (IF enc.pc = "returned" THEN 1 ELSE 0)
        IN /\ chunks >= 0
           /\ \A j \in 1..chunks :
                 enc.progress[j] = [num |-> FramesOfChunks(j), den |-> enc.numSamples]
           /\ enc.quantized = FramesOfChunks(chunks) * enc.numChannels
           /\ enc.offset = 44 + enc.quantized * enc.bytesPerSample
           /\ \A j \in 1..Len(enc.progress) :
                 0 < enc.progress[j].num /\ enc.progress[j].num <= enc.progress[j].den
           /\ \A j \in 1..(Len(enc.progress) - 1) :
                 enc.progress[j].num * enc.progress[j + 1].den
                     <= enc.progress[j + 1].num * enc.progress[j].den
           /\ enc.pc = "returned" =>
                 /\ enc.progress[Len(enc.progress)] = [num |-> 1, den |-> 1]
                 /\ FramesOfChunks(chunks) = enc.numSamples
           /\ enc.pc = "yielded" => enc.i = (chunks - 1) * enc.safeChunkSize

\* C12's case: a buffer of two chunks was encoded; progress was reported after
\* the first chunk, after the second and at the end.
C12_Witness ==
    /\ AsyncAtRest
    /\ enc.pc = "returned"
    /\ Len(enc.progress) = 3
    /\ enc.progress[1].num = enc.safeChunkSize
    /\ enc.progress[2].num = enc.numSamples

\* encodeWAVAsync run alone from the locals st until k chunks are written (or
\* it has returned).
RECURSIVE RunAlone(_, _)
RunAlone(st, k) ==
    IF st.pc = "yielded" /\ Len(st.progress) < k
    THEN RunAlone(ChunkLoop([st EXCEPT !.pc = "running",
                                       !.i = st.i + st.safeChunkSize], FALSE), k)
    ELSE st

\* C13: whatever the interleaving of two calls of encodeWAVAsync at their
\* awaits, each call holds at every await, and returns, exactly the header,
\* write offset, payload and progress it has when it runs alone on its buffer
\* (24 bit, no dither).
C13_InterleavedCallsAsAlone ==
    \A c \in Callers :
        calls[c].pc \in {"yielded", "returned"} =>
            LET alone == RunAlone(
                    ChunkLoop(ConcurrentEntry(calls[c].audioBuffer,
                                              calls[c].targetSampleRate), FALSE),
                    IF calls[c].pc = "returned" THEN Len(calls[c].view)
                    ELSE Len(calls[c].progress))
            IN /\ calls[c] = alone
               /\ calls[c].pc = "returned" =>
                     calls[c].view = encodeWAV(calls[c].audioBuffer,
                                               calls[c].targetSampleRate, 24,
                                               calls[c].options, <<0>>).view

\* C13's case: call 1 has returned the bytes of a two-chunk buffer while
\* call 2, on another buffer and for another rate, waits between its chunks.
C13_Witness ==
    /\ calls[1].pc = "returned"
    /\ Len(calls[1].progress) = 3
    /\ calls[2].pc = "yielded"
    /\ calls[2].audioBuffer # calls[1].audioBuffer
    /\ calls[2].targetSampleRate # calls[1].targetSampleRate
    /\ \E k \in 45..Len(calls[1].view) : calls[1].view[k] # 0

\* The three bytes at offset, low byte first, as a two's-complement integer.
GetInt24(view, offset) ==
    LET u == view[offset + 1] + 256 * view[offset + 2] + 65536 * view[offset + 3]
    IN IF u >= 8388608 THEN u - 16777216 ELSE u

\* The integer read back from the bytes of sample n of the returned payload.
ReadBack(n) ==
    IF enc.safeBitDepth = 16 THEN GetInt16(enc.view, 44 + 2 * n)
    ELSE GetInt24(enc.view, 44 + 3 * n)

\* C26: for every input sample, inside [-1, 1] or not, and every dither draw,
\* the integer the quantizer writes is within [-32768, 32767] at 16 bits and
\* within [-8388607, 8388607] at 24 bits, and the 2 or 3 little-endian bytes
\* of the payload read back as a two's-complement integer are that integer.
C26_QuantizerRangeAndLayout ==
    enc.pc = "returned" =>
        \A s \in 0..(enc.numSamples - 1), ch \in 0..(enc.numChannels - 1) :
            LET written == ClampedSample(audio, enc.safeBitDepth, enc.random, s, ch)
            IN /\ enc.safeBitDepth = 16 => written \in -32768..32767
               /\ enc.safeBitDepth = 24 => written \in -8388607..8388607
               /\ ReadBack(s * enc.numChannels + ch) = written

\* A returned 24-bit encoding of a buffer with a sample of -1 and a sample
\* above 1: the bytes read back as -8388607 and 8388607.
C26_Witness ==
    /\ enc.pc = "returned"
    /\ enc.safeBitDepth = 24
    /\ enc.numChannels = 1
    /\ enc.numSamples = 2
    /\ audio.channels[1] = <<-EncOne, 2 * EncOne>>
    /\ ReadBack(0) = -8388607
    /\ ReadBack(1) = 8388607

\* C27: a 24-bit encodeWAVAsync that is not cancelled returns, for every
\* buffer, target rate and chunkSize option, the bytes encodeWAV returns on
\* the same arguments.
C27_AsyncRefinesSync ==
    (enc.pc \in {"returned", "rejected"} /\ enc.fn = "encodeWAVAsync") =>
        /\ enc.pc = "returned"
        /\ enc.view = encodeWAV(audio, enc.targetSampleRate, 24,
                                [ditherMode |-> "none", shouldCancel |-> "null",
                                 chunkSize |-> DefaultChunkSize], <<0>>).view

-----------------------------------------------------------------------------
(* Claims about the page.                                                   *)

\* C28: a finished cache render writes cachedRenderBuffer / cachedRenderLufs
\* only if no scheduleRenderToCache call and no file load has happened since
\* it was scheduled (the results of outdated renders are discarded), and at
\* most one cache render is in flight at any time.
C28_CacheRenderVersioning ==
    /\ ui.finished.wrote => ui.finished.scheduledAt = ui.finished.finishedAt
    /\ Cardinality(ui.renders) <= 1

\* A render scheduled for the first file finishes after the second file has
\* been decoded, and its result has been discarded.
C28_Witness ==
    /\ ui.finished.thisVersion # 0
    /\ ~ui.finished.wrote
    /\ ui.finished.scheduledAt < ui.finished.finishedAt
    /\ ui.load.pc = "analysing"
    /\ ui.fileState.originalBuffer = 2

\* The current source exists, was started and has not ended.
CurrentSourcePlaying ==
    /\ ui.audioNodes.source # 0
    /\ ui.sources[ui.audioNodes.source].state = "playing"

\* C29: an 'ended' event delivered for a source that stopAudio has detached
\* never changes playerState.isPlaying, and isPlaying is true whenever a
\* started, non-ended current source exists.
C29_LateEndedIsIgnored ==
    /\ [](CurrentSourcePlaying => ui.playerState.isPlaying)
    /\ [][\A i \in DOMAIN ui.sources :
            (EndedDispatched(i) /\ i # ui.audioNodes.source)
               => ui'.playerState.isPlaying = ui.playerState.isPlaying]_vars

\* The 'ended' event of a detached source has been delivered while a newer
\* source, started by playAudio after the stopAudio, is playing.
C29_Witness ==
    /\ CurrentSourcePlaying
    /\ ui.playerState.isPlaying
    /\ \E i \in DOMAIN ui.sources :
          /\ i < ui.audioNodes.source
          /\ ui.sources[i].event = "delivered"
          /\ ui.sources[i].state = "ended"

\* An export that was running when cancelProcessing set processingCancelled
\* has not triggered the download.
CancelledExportsDownloadNothing ==
    \A e \in DOMAIN ui.exports : ui.exports[e].cancelled => e \notin ui.downloads

\* Export e has left processAudio in this step.
ExitsProcessAudio(e) ==
    /\ e \in DOMAIN ui'.exports
    /\ ui'.exports[e].pc = "done"
    /\ e \in DOMAIN ui.exports => ui.exports[e].pc # "done"

\* Every exit of processAudio leaves isProcessing false.
ExitResetsIsProcessing ==
    \A e \in 1..MaxExports : ExitsProcessAudio(e) => ~ui'.isProcessing

\* loadFile called while isProcessing is true returns false and changes
\* nothing.
LoadRefusedWhileProcessing ==
    (LoadFileCall /\ ui.isProcessing)
       => ui' = [ui EXCEPT !.load = [LoadIdle EXCEPT !.result = "refused"]]

\* C30 as stated: once cancelProcessing has set processingCancelled during a
\* running export, that export never triggers the download; every exit path of
\* processAudio resets isProcessing to false; loadFile is refused without
\* changing any state while isProcessing is true.
C30_CancelledExportNeverDownloads ==
    /\ []CancelledExportsDownloadNothing
    /\ [][ExitResetsIsProcessing]_vars
    /\ [][LoadRefusedWhileProcessing]_vars

====
